---- MODULE Spec2Model ----
(***************************************************************************)
(* Grading / planning engine of the Smart CGPA Calculator, its server     *)
(* routes and its slider component.                                        *)
(*                                                                         *)
(*   frontend/src/lib/SGPAEngine.ts      calculateSGPA, gpForTotal,        *)
(*                                       findMinimalSEEForTarget,          *)
(*                                       greedyGlobalPlan                  *)
(*   backend/src/auth/passport-config.ts aggregateSGPA, aggregateCGPA,     *)
(*                                       sign-in callback                  *)
(*   unnamed/part_003, part_004,         semester, calculation and         *)
(*   part_006                            subject routes                    *)
(*   unnamed/part_009                    SubjectSlider                     *)
(*                                                                         *)
(* Number representation (all arithmetic is exact):                        *)
(*   - marks (cie, see, bucket min) are integers;                          *)
(*   - seeScaled and total of a subject are numerators over cfg.maxSEE     *)
(*     (the value v is stored as v * cfg.maxSEE);                          *)
(*   - every GPA-like value (sgpa, cgpa, targets, gains) is stored in      *)
(*     units of 1/SgpaUnit (thousandths): 8.43 is 8430.                    *)
(* Math.round is modelled on the exact quotient (halves go up).  The       *)
(* source rounds IEEE doubles; on the inputs below both give the same      *)
(* value, except that for three and more subjects per stored semester a    *)
(* cgpa lying exactly halfway (8.165) comes out of the doubles as the      *)
(* lower neighbour (8.16).                                                 *)
(***************************************************************************)
EXTENDS Integers, Sequences, FiniteSets, TLC

VARIABLES config, subjects, targetSgpa, pc, ret,
          workingSubjects, steps, iterations, currentResult, semesters, heap,
          db, requests, slider

vars == <<config, subjects, targetSgpa, pc, ret,
          workingSubjects, steps, iterations, currentResult, semesters, heap,
          db, requests, slider>>

\* the variables of the server and of the slider component
appVars == <<db, requests, slider>>

\* empty tables, no id issued, no user signed up; no request in flight and
\* only the routes registered at start-up; no slider mounted
NoRows == [users |-> {}, semester |-> <<>>, subject |-> <<>>,
           semesterIds |-> 0, subjectIds |-> 0]

NoRequests == [routes |-> {}, inflight |-> <<>>, begun |-> 0]

NoSlider == [mounted |-> FALSE]

(***************************************************************************)
(* Bounds of the model                                                     *)
(***************************************************************************)
MaxSubjects == 2

MaxSemesters == 2

MaxSemSubjects == 2

(***************************************************************************)
(* Generic helpers                                                         *)
(***************************************************************************)
SgpaUnit == 10 * 10 * 10

RECURSIVE Pow10(_)
Pow10(n) == IF n = 0 THEN 1 ELSE 10 * Pow10(n - 1)

RECURSIVE SumSeq(_)
SumSeq(s) == IF s = <<>> THEN 0 ELSE Head(s) + SumSeq(Tail(s))

SeqsUpTo(S, n) == UNION {[1..k -> S] : k \in 0..n}

\* A const declaration of the source: TheValue({e(x) : x \in {d}}) is e(x)
\* with x bound to the value of d, which is computed once.
TheValue(S) == CHOOSE v \in S : TRUE

(***************************************************************************)
(* Grading configurations                                                  *)
(***************************************************************************)
DEFAULT_GRADING_CONFIG ==
  [maxCIE |-> 50, maxSEE |-> 100, roundingDigits |-> 2,
   buckets |-> << [min |-> 90, gp |-> 10], [min |-> 80, gp |-> 9],
                  [min |-> 70, gp |-> 8],  [min |-> 60, gp |-> 7],
                  [min |-> 50, gp |-> 6],  [min |-> 40, gp |-> 5],
                  [min |-> 0,  gp |-> 4] >>]

\* The default table listed in another order: same buckets, same scale.
ShuffledConfig ==
  [maxCIE |-> 50, maxSEE |-> 100, roundingDigits |-> 2,
   buckets |-> << [min |-> 50, gp |-> 6],  [min |-> 0,  gp |-> 4],
                  [min |-> 90, gp |-> 10], [min |-> 60, gp |-> 7],
                  [min |-> 40, gp |-> 5],  [min |-> 80, gp |-> 9],
                  [min |-> 70, gp |-> 8] >>]

\* A caller-supplied table: unit scale, one rounding digit, dense cutoffs
\* whose grade points do not increase with min.
DenseConfig ==
  [maxCIE |-> 100, maxSEE |-> 100, roundingDigits |-> 1,
   buckets |-> << [min |-> 121, gp |-> 10], [min |-> 120, gp |-> 5],
                  [min |-> 0, gp |-> 4],    [min |-> 105, gp |-> 9],
                  [min |-> 102, gp |-> 8],  [min |-> 101, gp |-> 7],
                  [min |-> 100, gp |-> 6] >>]

\* A caller-supplied table on another marks scale (maxSEE / maxCIE = 3).
ScaledConfig ==
  [maxCIE |-> 20, maxSEE |-> 60, roundingDigits |-> 2,
   buckets |-> << [min |-> 36, gp |-> 10], [min |-> 30, gp |-> 8],
                  [min |-> 20, gp |-> 5],  [min |-> 0, gp |-> 0] >>]

\* the configurations the planner is run with
Configs == {DEFAULT_GRADING_CONFIG, DenseConfig}

\* the configurations single subjects are graded with
AllConfigs == {DEFAULT_GRADING_CONFIG, ShuffledConfig, DenseConfig, ScaledConfig}

(***************************************************************************)
(* Core calculation functions (SGPAEngine.ts)                              *)
(***************************************************************************)
\* slip: the scale hard-coded as see / 2
scaleSEEHalved(see, cfg) == (see * cfg.maxSEE) \div 2

\* see / (maxSEE / maxCIE), as a numerator over cfg.maxSEE
scaleSEE(see, cfg) == see * cfg.maxCIE

\* cie + seeScaled, as a numerator over cfg.maxSEE
calculateTotal(cie, see, cfg) == cie * cfg.maxSEE + scaleSEE(see, cfg)

\* [...buckets].sort((a, b) => b.min - a.min): stable, descending by min.
\* b stood before every bucket of sorted, so it goes in front of its equals.
RECURSIVE InsertBucket(_, _)
InsertBucket(b, sorted) ==
  IF sorted = <<>> THEN <<b>>
  ELSE IF Head(sorted).min > b.min
       THEN <<Head(sorted)>> \o InsertBucket(b, Tail(sorted))
       ELSE <<b>> \o sorted

RECURSIVE SortBuckets(_)
SortBuckets(bs) ==
  IF bs = <<>> THEN <<>>
  ELSE InsertBucket(Head(bs), SortBuckets(Tail(bs)))

\* slip: the cutoff itself excluded from its bucket
RECURSIVE FirstBucketGpStrict(_, _, _)
FirstBucketGpStrict(total, sorted, cfg) ==
  IF sorted = <<>> THEN 0
  ELSE IF total > Head(sorted).min * cfg.maxSEE THEN Head(sorted).gp
       ELSE FirstBucketGpStrict(total, Tail(sorted), cfg)

\* slip: the comparison of the scan the wrong way round
RECURSIVE FirstBucketGpFlipped(_, _, _)
FirstBucketGpFlipped(total, sorted, cfg) ==
  IF sorted = <<>> THEN 0
  ELSE IF total <= Head(sorted).min * cfg.maxSEE THEN Head(sorted).gp
       ELSE FirstBucketGpFlipped(total, Tail(sorted), cfg)

RECURSIVE FirstBucketGp(_, _, _)
FirstBucketGp(total, sorted, cfg) ==
  IF sorted = <<>> THEN 0
  ELSE IF total >= Head(sorted).min * cfg.maxSEE THEN Head(sorted).gp
       ELSE FirstBucketGp(total, Tail(sorted), cfg)

\* total is a numerator over cfg.maxSEE
gpForTotal(total, cfg) == FirstBucketGp(total, SortBuckets(cfg.buckets), cfg)

calculateWeightedPoints(gp, credits) == gp * credits

\* slip: Math.floor instead of Math.round
roundToFloor(num, den, digits) ==
  ((num * Pow10(digits)) \div den) * (SgpaUnit \div Pow10(digits))

\* Math.round(value * 10^digits) / 10^digits for value = num / den, den > 0;
\* Math.round rounds halves towards +infinity.  Result in units of 1/SgpaUnit.
roundTo(num, den, digits) ==
  ((2 * num * Pow10(digits) + den) \div (2 * den)) * (SgpaUnit \div Pow10(digits))

SubjectResultOf(s, cfg) ==
  LET seeScaled == scaleSEE(s.see, cfg)
      total     == s.cie * cfg.maxSEE + seeScaled
  IN  TheValue({[code |-> s.code, cie |-> s.cie, see |-> s.see,
                 seeScaled |-> seeScaled, total |-> total, gp |-> gp,
                 weighted |-> calculateWeightedPoints(gp, s.credits),
                 credits |-> s.credits] :
                  gp \in {gpForTotal(total, cfg)}})

\* slip: the ceiling computed without replacing see by maxSEE
calculateSGPAKeepSee(subs, cfg) ==
  TheValue({
    LET totalCredits  == SumSeq([i \in 1..Len(results) |-> results[i].credits])
        totalWeighted == SumSeq([i \in 1..Len(results) |-> results[i].weighted])
        maxWeighted   == SumSeq(maxResults)
    IN  [subjects        |-> results,
         sgpa            |-> IF totalCredits > 0
                             THEN roundTo(totalWeighted, totalCredits, cfg.roundingDigits)
                             ELSE roundTo(0, 1, cfg.roundingDigits),
         totalCredits    |-> totalCredits,
         totalWeighted   |-> totalWeighted,
         maxSgpaIfAll100 |-> IF totalCredits > 0
                             THEN roundTo(maxWeighted, totalCredits, cfg.roundingDigits)
                             ELSE roundTo(0, 1, cfg.roundingDigits)] :
      results    \in {<<>> \o [i \in 1..Len(subs) |-> SubjectResultOf(subs[i], cfg)]},
      maxResults \in {<<>> \o [i \in 1..Len(subs) |->
                        LET maxSubject == subs[i]
                        IN  calculateWeightedPoints(
                              gpForTotal(maxSubject.cie * cfg.maxSEE
                                           + scaleSEE(maxSubject.see, cfg), cfg),
                              maxSubject.credits)]} })

\* results and maxResults are built once (results.map, maxSubjects.map)
calculateSGPA(subs, cfg) ==
  TheValue({
    LET totalCredits  == SumSeq([i \in 1..Len(results) |-> results[i].credits])
        totalWeighted == SumSeq([i \in 1..Len(results) |-> results[i].weighted])
        maxWeighted   == SumSeq(maxResults)
    IN  [subjects        |-> results,
         sgpa            |-> IF totalCredits > 0
                             THEN roundTo(totalWeighted, totalCredits, cfg.roundingDigits)
                             ELSE roundTo(0, 1, cfg.roundingDigits),
         totalCredits    |-> totalCredits,
         totalWeighted   |-> totalWeighted,
         maxSgpaIfAll100 |-> IF totalCredits > 0
                             THEN roundTo(maxWeighted, totalCredits, cfg.roundingDigits)
                             ELSE roundTo(0, 1, cfg.roundingDigits)] :
      results    \in {<<>> \o [i \in 1..Len(subs) |-> SubjectResultOf(subs[i], cfg)]},
      maxResults \in {<<>> \o [i \in 1..Len(subs) |->
                        LET maxSubject == [subs[i] EXCEPT !.see = cfg.maxSEE]
                        IN  calculateWeightedPoints(
                              gpForTotal(maxSubject.cie * cfg.maxSEE
                                           + scaleSEE(maxSubject.see, cfg), cfg),
                              maxSubject.credits)]} })

(***************************************************************************)
(* Critical SEE values (SGPAEngine.ts)                                     *)
(***************************************************************************)
MinOf(a, b) == IF a <= b THEN a ELSE b

MaxOf(a, b) == IF a >= b THEN a ELSE b

\* slip: the value returned without the clamp into [0, maxSEE]
CriticalOfUnclamped(bucket, cie, cfg) ==
  LET seeCrit == (bucket.min - cie) * (cfg.maxSEE \div cfg.maxCIE)
  IN  [cutoffTotal |-> bucket.min,
       seeCrit     |-> seeCrit,
       gp          |-> bucket.gp,
       reachable   |-> seeCrit >= 0 /\ seeCrit <= cfg.maxSEE]

\* (cutoffTotal - cie) * (maxSEE / maxCIE); every configuration of the model
\* has maxSEE a multiple of maxCIE, so the quotient is exact.
CriticalOf(bucket, cie, cfg) ==
  LET seeCrit == (bucket.min - cie) * (cfg.maxSEE \div cfg.maxCIE)
  IN  [cutoffTotal |-> bucket.min,
       seeCrit     |-> MaxOf(0, MinOf(cfg.maxSEE, seeCrit)),
       gp          |-> bucket.gp,
       reachable   |-> seeCrit >= 0 /\ seeCrit <= cfg.maxSEE]

\* criticals.sort((a, b) => a.seeCrit - b.seeCrit): stable, ascending
RECURSIVE InsertCritical(_, _)
InsertCritical(c, sorted) ==
  IF sorted = <<>> THEN <<c>>
  ELSE IF Head(sorted).seeCrit <= c.seeCrit
       THEN <<Head(sorted)>> \o InsertCritical(c, Tail(sorted))
       ELSE <<c>> \o sorted

RECURSIVE SortCriticals(_)
SortCriticals(cs) ==
  IF cs = <<>> THEN <<>>
  ELSE InsertCritical(cs[Len(cs)], SortCriticals(SubSeq(cs, 1, Len(cs) - 1)))

calculateCriticalSEEValues(cie, cfg) ==
  SortCriticals([i \in 1..Len(cfg.buckets) |-> CriticalOf(cfg.buckets[i], cie, cfg)])

(***************************************************************************)
(* Planning algorithms (SGPAEngine.ts)                                     *)
(***************************************************************************)
\* subjects.findIndex(s => s.code === code); 0 stands for -1 (not found)
RECURSIVE FindIndexFrom(_, _, _)
FindIndexFrom(subs, code, i) ==
  IF i > Len(subs) THEN 0
  ELSE IF subs[i].code = code THEN i
       ELSE FindIndexFrom(subs, code, i + 1)

\* slip: the scan starts at the second subject
FindIndexSkipFirst(subs, code) == FindIndexFrom(subs, code, 2)

FindIndex(subs, code) == FindIndexFrom(subs, code, 1)

\* slip: the see written to every subject
WithSeeAll(subs, index, see) ==
  [i \in 1..Len(subs) |-> [subs[i] EXCEPT !.see = see]]

\* subjects.map((s, i) => i === index ? { ...s, see } : s)
WithSee(subs, index, see) ==
  [i \in 1..Len(subs) |-> IF i = index THEN [subs[i] EXCEPT !.see = see] ELSE subs[i]]

\* the probe of the marginal gain: see + 1, clamped at maxSEE
ProbeSubjects(subs, index, cfg) ==
  WithSee(subs, index, MinOf(subs[index].see + 1, cfg.maxSEE))

\* slip: the search stops at the first probe that meets the target
RECURSIVE BinarySearchFirstHit(_, _, _, _, _, _, _, _)
BinarySearchFirstHit(left, right, minSee, achievedSgpa, subs, targetIndex, target, cfg) ==
  IF left > right THEN [minSee |-> minSee, achievedSgpa |-> achievedSgpa]
  ELSE LET mid == (left + right) \div 2
       IN  TheValue({
             IF sgpa >= target
             THEN [minSee |-> mid, achievedSgpa |-> sgpa]
             ELSE BinarySearchFirstHit(mid + 1, right, minSee, achievedSgpa,
                                       subs, targetIndex, target, cfg) :
               sgpa \in {calculateSGPA(WithSee(subs, targetIndex, mid), cfg).sgpa}})

\* while (left <= right) { ... } of findMinimalSEEForTarget
RECURSIVE BinarySearch(_, _, _, _, _, _, _, _)
BinarySearch(left, right, minSee, achievedSgpa, subs, targetIndex, target, cfg) ==
  IF left > right THEN [minSee |-> minSee, achievedSgpa |-> achievedSgpa]
  ELSE LET mid == (left + right) \div 2
       IN  TheValue({
             IF sgpa >= target
             THEN BinarySearch(left, mid - 1, mid, sgpa,
                               subs, targetIndex, target, cfg)
             ELSE BinarySearch(mid + 1, right, minSee, achievedSgpa,
                               subs, targetIndex, target, cfg) :
               sgpa \in {calculateSGPA(WithSee(subs, targetIndex, mid), cfg).sgpa}})

\* slip: the check for an already met target left out
findMinimalSEEForTargetNoShortcut(subs, targetSubjectCode, target, cfg) ==
  LET targetIndex == FindIndex(subs, targetSubjectCode)
  IN  IF targetIndex = 0
      THEN [threw |-> TRUE, code |-> targetSubjectCode]
      ELSE
        LET currentSee == subs[targetIndex].see
        IN  TheValue({
              LET marginalGain == testSgpa - currentSgpa
              IN  IF FALSE
                  THEN [threw |-> FALSE, code |-> subs[targetIndex].code,
                        currentSee |-> currentSee, minSeeToReachTarget |-> currentSee,
                        achievedSgpa |-> currentSgpa, possible |-> TRUE,
                        marginalGain |-> marginalGain, searched |-> FALSE]
                  ELSE TheValue({
                         [threw |-> FALSE, code |-> subs[targetIndex].code,
                          currentSee |-> currentSee,
                          minSeeToReachTarget |-> found.minSee,
                          achievedSgpa |-> found.achievedSgpa,
                          possible |-> found.minSee # -1,
                          marginalGain |-> marginalGain, searched |-> TRUE] :
                           found \in {BinarySearch(currentSee, cfg.maxSEE, -1,
                                                   currentSgpa, subs, targetIndex,
                                                   target, cfg)}}) :
                currentSgpa \in {calculateSGPA(subs, cfg).sgpa},
                testSgpa    \in {calculateSGPA(ProbeSubjects(subs, targetIndex, cfg),
                                               cfg).sgpa}})

findMinimalSEEForTarget(subs, targetSubjectCode, target, cfg) ==
  LET targetIndex == FindIndex(subs, targetSubjectCode)
  IN  IF targetIndex = 0
      THEN [threw |-> TRUE, code |-> targetSubjectCode]
      ELSE
        LET currentSee == subs[targetIndex].see
        IN  TheValue({
              LET marginalGain == testSgpa - currentSgpa
              IN  IF currentSgpa >= target
                  THEN [threw |-> FALSE, code |-> subs[targetIndex].code,
                        currentSee |-> currentSee, minSeeToReachTarget |-> currentSee,
                        achievedSgpa |-> currentSgpa, possible |-> TRUE,
                        marginalGain |-> marginalGain, searched |-> FALSE]
                  ELSE TheValue({
                         [threw |-> FALSE, code |-> subs[targetIndex].code,
                          currentSee |-> currentSee,
                          minSeeToReachTarget |-> found.minSee,
                          achievedSgpa |-> found.achievedSgpa,
                          possible |-> found.minSee # -1,
                          marginalGain |-> marginalGain, searched |-> TRUE] :
                           found \in {BinarySearch(currentSee, cfg.maxSEE, -1,
                                                   currentSgpa, subs, targetIndex,
                                                   target, cfg)}}) :
                currentSgpa \in {calculateSGPA(subs, cfg).sgpa},
                testSgpa    \in {calculateSGPA(ProbeSubjects(subs, targetIndex, cfg),
                                               cfg).sgpa}})

maxIterations == 1000

\* slip: a gain equal to the best one replaces it
RECURSIVE BestSubjectLastTie(_, _, _, _, _, _)
BestSubjectLastTie(i, bestIndex, bestGain, working, currentSgpa, cfg) ==
  IF i > Len(working) THEN bestIndex
  ELSE IF working[i].see >= cfg.maxSEE
       THEN BestSubjectLastTie(i + 1, bestIndex, bestGain, working, currentSgpa, cfg)
       ELSE TheValue({
              IF gain >= bestGain
              THEN BestSubjectLastTie(i + 1, i, gain, working, currentSgpa, cfg)
              ELSE BestSubjectLastTie(i + 1, bestIndex, bestGain, working,
                                      currentSgpa, cfg) :
                gain \in {calculateSGPA(ProbeSubjects(working, i, cfg), cfg).sgpa
                            - currentSgpa}})

\* for (let i = 0; ...) { ... if (marginalGain > bestMarginalGain) ... }
RECURSIVE BestSubject(_, _, _, _, _, _)
BestSubject(i, bestIndex, bestGain, working, currentSgpa, cfg) ==
  IF i > Len(working) THEN bestIndex
  ELSE IF working[i].see >= cfg.maxSEE
       THEN BestSubject(i + 1, bestIndex, bestGain, working, currentSgpa, cfg)
       ELSE TheValue({
              IF gain > bestGain
              THEN BestSubject(i + 1, i, gain, working, currentSgpa, cfg)
              ELSE BestSubject(i + 1, bestIndex, bestGain, working, currentSgpa, cfg) :
                gain \in {calculateSGPA(ProbeSubjects(working, i, cfg), cfg).sgpa
                            - currentSgpa}})

bestSubjectIndex(working, currentSgpa, cfg) ==
  BestSubject(1, 0, 0, working, currentSgpa, cfg)

\* criticals.find(c => c.seeCrit > subject.see && c.reachable); <<>> if none
RECURSIVE FindNextCritical(_, _)
FindNextCritical(criticals, see) ==
  IF criticals = <<>> THEN <<>>
  ELSE IF Head(criticals).seeCrit > see /\ Head(criticals).reachable
       THEN <<Head(criticals)>>
       ELSE FindNextCritical(Tail(criticals), see)

\* slip: the chosen subject is not advanced
toSeeStuck(subject, cfg) == MinOf(subject.see, cfg.maxSEE)

toSeeOf(subject, cfg) ==
  TheValue({
    IF nextCritical # <<>>
    THEN MinOf(nextCritical[1].seeCrit, cfg.maxSEE)
    ELSE MinOf(subject.see + 1, cfg.maxSEE) :
      nextCritical \in {FindNextCritical(
                          calculateCriticalSEEValues(subject.cie, cfg), subject.see)}})

(***************************************************************************)
(* Backend calculation utilities (passport-config.ts, lines 118-188)       *)
(* Totals are numerators over SeeDivisor (the value v is v * SeeDivisor).  *)
(***************************************************************************)
SeeDivisor == 2

\* see / 2, as a numerator over SeeDivisor
scaleSee(see) == see

\* slip: a total on a cutoff graded one bucket lower
getGradePointStrict(total) ==
  IF total > 90 * SeeDivisor THEN 10
  ELSE IF total > 80 * SeeDivisor THEN 9
  ELSE IF total > 70 * SeeDivisor THEN 8
  ELSE IF total > 60 * SeeDivisor THEN 7
  ELSE IF total > 50 * SeeDivisor THEN 6
  ELSE IF total > 40 * SeeDivisor THEN 5
  ELSE 4

getGradePoint(total) ==
  IF total >= 90 * SeeDivisor THEN 10
  ELSE IF total >= 80 * SeeDivisor THEN 9
  ELSE IF total >= 70 * SeeDivisor THEN 8
  ELSE IF total >= 60 * SeeDivisor THEN 7
  ELSE IF total >= 50 * SeeDivisor THEN 6
  ELSE IF total >= 40 * SeeDivisor THEN 5
  ELSE 4

computeSubjectMetrics(cie, see, credits) ==
  LET total    == cie * SeeDivisor + scaleSee(see)
      gp       == getGradePoint(total)
      weighted == gp * credits
  IN  [total |-> total, gp |-> gp, weighted |-> weighted]

\* Math.round(n * 100) / 100 for n = num / den, in units of 1/SgpaUnit
round2(num, den) == ((2 * num * 100 + den) \div (2 * den)) * (SgpaUnit \div 100)

aggregateSGPA(subs) ==
  LET detailed      == [i \in 1..Len(subs) |->
                          [gp       |-> computeSubjectMetrics(subs[i].cie, subs[i].see,
                                                              subs[i].credits).gp,
                           weighted |-> computeSubjectMetrics(subs[i].cie, subs[i].see,
                                                              subs[i].credits).weighted,
                           credits  |-> subs[i].credits]]
      totalCredits  == SumSeq([i \in 1..Len(detailed) |-> detailed[i].credits])
      totalWeighted == SumSeq([i \in 1..Len(detailed) |-> detailed[i].weighted])
      maxWeighted   == SumSeq([i \in 1..Len(subs) |->
                          getGradePoint(subs[i].cie * SeeDivisor + scaleSee(100))
                            * subs[i].credits])
  IN  [sgpa            |-> IF totalCredits # 0 THEN round2(totalWeighted, totalCredits)
                           ELSE round2(0, 1),
       totalCredits    |-> totalCredits,
       totalWeighted   |-> round2(totalWeighted, 1),
       maxSgpaIfAll100 |-> IF totalCredits # 0 THEN round2(maxWeighted, totalCredits)
                           ELSE round2(0, 1)]

\* slip: the semesters averaged without their credits as weights
aggregateCGPAUnweighted(sems) ==
  LET semesterBreakdown == [i \in 1..Len(sems) |->
                              [semesterId |-> sems[i].id,
                               sgpa       |-> aggregateSGPA(sems[i].subjects).sgpa,
                               credits    |-> aggregateSGPA(sems[i].subjects).totalCredits]]
      totalCredits == SumSeq([i \in 1..Len(semesterBreakdown) |->
                                semesterBreakdown[i].credits])
      weightedSum  == SumSeq([i \in 1..Len(semesterBreakdown) |->
                                semesterBreakdown[i].sgpa])
  IN  [cgpa              |-> IF totalCredits # 0
                             THEN round2(weightedSum, Len(sems) * SgpaUnit)
                             ELSE round2(0, 1),
       totalCredits      |-> totalCredits,
       semesterBreakdown |-> semesterBreakdown]

\* sgpa values are in units of 1/SgpaUnit, and so is weightedSum
aggregateCGPA(sems) ==
  LET semesterBreakdown == [i \in 1..Len(sems) |->
                              [semesterId |-> sems[i].id,
                               sgpa       |-> aggregateSGPA(sems[i].subjects).sgpa,
                               credits    |-> aggregateSGPA(sems[i].subjects).totalCredits]]
      totalCredits == SumSeq([i \in 1..Len(semesterBreakdown) |->
                                semesterBreakdown[i].credits])
      weightedSum  == SumSeq([i \in 1..Len(semesterBreakdown) |->
                                semesterBreakdown[i].sgpa * semesterBreakdown[i].credits])
  IN  [cgpa              |-> IF totalCredits # 0
                             THEN round2(weightedSum, totalCredits * SgpaUnit)
                             ELSE round2(0, 1),
       totalCredits      |-> totalCredits,
       semesterBreakdown |-> semesterBreakdown]

(***************************************************************************)
(* Inputs                                                                  *)
(***************************************************************************)
CieValues == {40, 45}

SeeValues == {59, 60, 80}

CreditValues == {3, 4}

TargetValues == {9000, 10000}

NoResult == [op |-> "none"]

\* Subject lists the UI can hold: codes are distinct (the position is the code)
SubjectLists ==
  {[i \in 1..Len(raw) |-> [code |-> i, cie |-> raw[i][1], see |-> raw[i][2],
                            credits |-> raw[i][3]]] :
     raw \in SeqsUpTo(CieValues \X SeeValues \X CreditValues, MaxSubjects)}

Init ==
  /\ config \in Configs
  /\ subjects \in SubjectLists
  /\ targetSgpa \in TargetValues
  /\ pc = "idle"
  /\ ret = NoResult
  /\ workingSubjects = <<>>
  /\ steps = <<>>
  /\ iterations = 0
  /\ currentResult = NoResult
  /\ semesters = <<>>
  /\ heap = <<>>
  /\ db = NoRows
  /\ requests = NoRequests
  /\ slider = NoSlider

CalculateSGPA ==
  /\ pc = "idle"
  /\ ret' = [op |-> "calculateSGPA", val |-> calculateSGPA(subjects, config)]
  /\ pc' = "done"
  /\ UNCHANGED <<config, subjects, targetSgpa, workingSubjects, steps,
                 iterations, currentResult, semesters, heap, appVars>>

\* Planner.tsx: one plan per subject of the list; a code that is not in
\* the list is what any other caller may pass
FindMinimalSEEForTarget ==
  /\ pc = "idle"
  /\ \E code \in 1..(MaxSubjects + 1) :
       ret' = [op |-> "findMinimalSEEForTarget",
               val |-> findMinimalSEEForTarget(subjects, code, targetSgpa, config)]
  /\ pc' = "done"
  /\ UNCHANGED <<config, subjects, targetSgpa, workingSubjects, steps,
                 iterations, currentResult, semesters, heap, appVars>>

\* greedyGlobalPlan, lines 357-362: working copy and first result
GreedyStart ==
  /\ pc = "idle"
  /\ workingSubjects' = subjects
  /\ steps' = <<>>
  /\ currentResult' = calculateSGPA(subjects, config)
  /\ iterations' = 0
  /\ pc' = "loop"
  /\ UNCHANGED <<config, subjects, targetSgpa, ret, semesters, heap, appVars>>

\* slip: the loop runs on without looking at the target
LoopConditionNoTarget(sgpa, target, iters) == iters < maxIterations

\* while (currentResult.sgpa < targetSgpa && iterations < maxIterations)
LoopCondition(sgpa, target, iters) == sgpa < target /\ iters < maxIterations

\* one iteration of the while loop, lines 364-416
GreedyIterate ==
  /\ pc = "loop"
  /\ LoopCondition(currentResult.sgpa, targetSgpa, iterations)
  /\ iterations' = iterations + 1
  /\ LET allAtMax == \A i \in 1..Len(workingSubjects) :
                        workingSubjects[i].see >= config.maxSEE
     IN  IF allAtMax
         THEN /\ pc' = "exit"
              /\ UNCHANGED <<workingSubjects, steps, currentResult>>
         ELSE \E best \in {bestSubjectIndex(workingSubjects, currentResult.sgpa,
                                             config)} :
                IF best = 0
                THEN /\ pc' = "exit"
                     /\ UNCHANGED <<workingSubjects, steps, currentResult>>
                ELSE LET subject == workingSubjects[best]
                         fromSee == subject.see
                     IN  \E toSee \in {toSeeOf(subject, config)} :
                         \E result \in {calculateSGPA(
                                           WithSee(workingSubjects, best, toSee),
                                           config)} :
                           /\ workingSubjects' = WithSee(workingSubjects, best, toSee)
                           /\ currentResult' = result
                           /\ steps' = Append(steps,
                                          [code |-> subject.code,
                                           fromSee |-> fromSee, toSee |-> toSee,
                                           increaseSeeBy |-> toSee - fromSee,
                                           sgpaAfter |-> result.sgpa])
                           /\ pc' = IF result.sgpa >= targetSgpa
                                    THEN "exit" ELSE "loop"
  /\ UNCHANGED <<config, subjects, targetSgpa, ret, semesters, heap, appVars>>

\* the loop condition fails
GreedyLoopEnd ==
  /\ pc = "loop"
  /\ ~ LoopCondition(currentResult.sgpa, targetSgpa, iterations)
  /\ pc' = "exit"
  /\ UNCHANGED <<config, subjects, targetSgpa, ret, workingSubjects, steps,
                 iterations, currentResult, semesters, heap, appVars>>

\* lines 418-427: ceiling from the caller's subjects, and the returned plan
GreedyReturn ==
  /\ pc = "exit"
  /\ LET maxSubjects == [i \in 1..Len(subjects) |->
                           [subjects[i] EXCEPT !.see = config.maxSEE]]
         maxResult   == calculateSGPA(maxSubjects, config)
     IN  ret' = [op  |-> "greedyGlobalPlan",
                 val |-> [steps              |-> steps,
                          finalSgpa          |-> currentResult.sgpa,
                          targetReached      |-> currentResult.sgpa >= targetSgpa,
                          bestAttainableSgpa |-> maxResult.sgpa]]
  /\ pc' = "done"
  /\ UNCHANGED <<config, subjects, targetSgpa, workingSubjects, steps,
                 iterations, currentResult, semesters, heap, appVars>>

Next ==
  \/ CalculateSGPA
  \/ FindMinimalSEEForTarget
  \/ GreedyStart
  \/ GreedyIterate
  \/ GreedyLoopEnd
  \/ GreedyReturn

Spec == Init /\ [][Next]_vars

(***************************************************************************)
(* greedyGlobalPlan on lists that hold subjects already at maxSEE          *)
(***************************************************************************)
GreedySubjectLists ==
  {[i \in 1..Len(raw) |-> [code |-> i, cie |-> raw[i][1], see |-> raw[i][2],
                            credits |-> raw[i][3]]] :
     raw \in SeqsUpTo(CieValues \X {59, 80, 100} \X CreditValues, MaxSubjects)}

InitGreedy ==
  /\ config \in Configs
  /\ subjects \in GreedySubjectLists
  /\ targetSgpa \in TargetValues
  /\ pc = "idle"
  /\ ret = NoResult
  /\ workingSubjects = <<>>
  /\ steps = <<>>
  /\ iterations = 0
  /\ currentResult = NoResult
  /\ semesters = <<>>
  /\ heap = <<>>
  /\ db = NoRows
  /\ requests = NoRequests
  /\ slider = NoSlider

NextGreedy ==
  \/ GreedyStart
  \/ GreedyIterate
  \/ GreedyLoopEnd
  \/ GreedyReturn

SpecGreedy == InitGreedy /\ [][NextGreedy]_vars

(***************************************************************************)
(* Grading of one subject over the whole marks range                       *)
(***************************************************************************)
CieGrid == {0, 10, 20, 35, 40, 45, 50, 70, 100}

InitSubject ==
  /\ config \in AllConfigs
  /\ \E cie \in CieGrid \cap (0..config.maxCIE) :
       \E see \in 0..config.maxSEE : \E credits \in CreditValues :
         subjects = << [code |-> 1, cie |-> cie, see |-> see, credits |-> credits] >>
  /\ targetSgpa = 0
  /\ pc = "idle"
  /\ ret = NoResult
  /\ workingSubjects = <<>>
  /\ steps = <<>>
  /\ iterations = 0
  /\ currentResult = NoResult
  /\ semesters = <<>>
  /\ heap = <<>>
  /\ db = NoRows
  /\ requests = NoRequests
  /\ slider = NoSlider

\* the critical SEE values of the subject's cie
CalculateCriticalSEEValues ==
  /\ pc = "idle"
  /\ ret' = [op |-> "calculateCriticalSEEValues", cie |-> subjects[1].cie,
             val |-> calculateCriticalSEEValues(subjects[1].cie, config)]
  /\ pc' = "done"
  /\ UNCHANGED <<config, subjects, targetSgpa, workingSubjects, steps,
                 iterations, currentResult, semesters, heap, appVars>>

NextSubject ==
  \/ CalculateSGPA
  \/ CalculateCriticalSEEValues

SpecSubject == InitSubject /\ [][NextSubject]_vars

(***************************************************************************)
(* Backend aggregation over stored semesters                               *)
(***************************************************************************)
StoredSubjects ==
  { [cie |-> 40, see |-> 60, credits |-> 4],
    [cie |-> 45, see |-> 80, credits |-> 3],
    [cie |-> 10, see |-> 0,  credits |-> 3] }

StoredSemesters ==
  {[i \in 1..Len(raw) |-> [id |-> i, subjects |-> raw[i]]] :
     raw \in SeqsUpTo(SeqsUpTo(StoredSubjects, MaxSemSubjects), MaxSemesters)}

InitBackend ==
  /\ semesters \in StoredSemesters
  /\ heap = <<>>
  /\ db = NoRows
  /\ requests = NoRequests
  /\ slider = NoSlider
  /\ config = DEFAULT_GRADING_CONFIG
  /\ subjects = <<>>
  /\ targetSgpa = 0
  /\ pc = "idle"
  /\ ret = NoResult
  /\ workingSubjects = <<>>
  /\ steps = <<>>
  /\ iterations = 0
  /\ currentResult = NoResult

\* GET /api/calculate/sgpa: aggregateSGPA over one semester's subjects
AggregateSGPA ==
  /\ pc = "idle"
  /\ \E i \in 1..Len(semesters) :
       ret' = [op |-> "aggregateSGPA", semester |-> i,
               val |-> aggregateSGPA(semesters[i].subjects)]
  /\ pc' = "done"
  /\ UNCHANGED <<config, subjects, targetSgpa, workingSubjects, steps,
                 iterations, currentResult, semesters, heap, appVars>>

\* GET /api/calculate/cgpa: aggregateCGPA over all semesters
AggregateCGPA ==
  /\ pc = "idle"
  /\ ret' = [op |-> "aggregateCGPA", val |-> aggregateCGPA(semesters)]
  /\ pc' = "done"
  /\ UNCHANGED <<config, subjects, targetSgpa, workingSubjects, steps,
                 iterations, currentResult, semesters, heap, appVars>>

NextBackend == AggregateSGPA \/ AggregateCGPA

SpecBackend == InitBackend /\ [][NextBackend]_vars

(***************************************************************************)
(* Memory of a call (SGPAEngine.ts).  heap is a sequence of cells; the     *)
(* address of a cell is its index.  A cell holds an array (of bucket       *)
(* records, of addresses of subject objects, of critical values) or a      *)
(* subject object.  The caller's cells come first: its bucket array, its   *)
(* subject array, then its subject objects.  Cells a call allocates are    *)
(* appended; they are unreachable once the call has returned.              *)
(***************************************************************************)
BucketsAddr == 1

SubjectsAddr == 2

\* the caller's memory for a subject list and a bucket table
CallerHeap(subs, cfg) ==
  <<cfg.buckets, [i \in 1..Len(subs) |-> SubjectsAddr + i]>> \o subs

\* the subject objects an array refers to
DerefSubjects(h, arr) == <<>> \o [i \in 1..Len(h[arr]) |-> h[h[arr][i]]]

\* the config as the engine reads it: the bucket array is read through memory
ConfigOf(h, cfg) == [cfg EXCEPT !.buckets = h[BucketsAddr]]

\* slip: no copy, the sort is applied to config.buckets itself
SpreadBucketsAlias(h) == [heap |-> h, addr |-> BucketsAddr]

\* [...config.buckets]: a new array with the same elements
SpreadBuckets(h) == [heap |-> Append(h, h[BucketsAddr]), addr |-> Len(h) + 1]

\* gpForTotal: the copy is sorted in place, then only read
gpForTotalHeap(h) ==
  TheValue({[copy.heap EXCEPT ![copy.addr] = SortBuckets(@)] :
              copy \in {SpreadBuckets(h)}})

RECURSIVE RepeatGpForTotal(_, _)
RepeatGpForTotal(h, n) ==
  IF n = 0 THEN h
  ELSE TheValue({RepeatGpForTotal(h1, n - 1) : h1 \in {gpForTotalHeap(h)}})

\* slip: the array is copied, the subject objects are shared
CopySubjectsShallow(h, arr) ==
  [heap |-> Append(h, h[arr]), addr |-> Len(h) + 1]

\* subjects.map(s => ({ ...s })): new objects and a new array of them
CopySubjects(h, arr) ==
  LET n == Len(h[arr])
  IN  [heap |-> (h \o DerefSubjects(h, arr)) \o <<[i \in 1..n |-> Len(h) + i]>>,
       addr |-> Len(h) + n + 1]

\* subjects.map(s => ({ ...s, see })): as CopySubjects, see replaced
CopySubjectsWithSee(h, arr, see) ==
  LET n == Len(h[arr])
  IN  [heap |-> (h \o [i \in 1..n |-> [h[h[arr][i]] EXCEPT !.see = see]])
                  \o <<[i \in 1..n |-> Len(h) + i]>>,
       addr |-> Len(h) + n + 1]

\* subjects.map((s, i) => i === index ? { ...s, see } : s): a new array,
\* one new object, the other objects shared with the mapped array
MapWithSee(h, arr, index, see) ==
  [heap |-> (h \o <<[h[h[arr][index]] EXCEPT !.see = see]>>)
              \o <<[i \in 1..Len(h[arr]) |->
                      IF i = index THEN Len(h) + 1 ELSE h[arr][i]]>>,
   addr |-> Len(h) + 2]

\* calculateSGPA: one gpForTotal per subject, the maxSubjects copies, one
\* gpForTotal per copy
calculateSGPAHeap(h, arr, cfg) ==
  LET n == Len(h[arr])
  IN  TheValue({RepeatGpForTotal(CopySubjectsWithSee(h1, arr, cfg.maxSEE).heap, n) :
                  h1 \in {RepeatGpForTotal(h, n)}})

\* calculateSGPA(subjects.map(...one see replaced...), config)
ProbeHeap(h, arr, index, see, cfg) ==
  TheValue({[heap |-> calculateSGPAHeap(m.heap, m.addr, cfg), addr |-> m.addr] :
              m \in {MapWithSee(h, arr, index, see)}})

SgpaAt(h, arr, cfg) == calculateSGPA(DerefSubjects(h, arr), ConfigOf(h, cfg)).sgpa

\* the probes of the marginal gain, one for every subject below maxSEE
RECURSIVE ProbeEachHeap(_, _, _, _)
ProbeEachHeap(h, arr, i, cfg) ==
  IF i > Len(h[arr]) THEN h
  ELSE IF h[h[arr][i]].see >= cfg.maxSEE
       THEN ProbeEachHeap(h, arr, i + 1, cfg)
       ELSE TheValue({ProbeEachHeap(p.heap, arr, i + 1, cfg) :
                        p \in {ProbeHeap(h, arr, i,
                                         MinOf(h[h[arr][i]].see + 1, cfg.maxSEE), cfg)}})

RECURSIVE BinarySearchHeap(_, _, _, _, _, _, _)
BinarySearchHeap(h, left, right, arr, index, target, cfg) ==
  IF left > right THEN h
  ELSE LET mid == (left + right) \div 2
       IN  TheValue({
             IF SgpaAt(p.heap, p.addr, cfg) >= target
             THEN BinarySearchHeap(p.heap, left, mid - 1, arr, index, target, cfg)
             ELSE BinarySearchHeap(p.heap, mid + 1, right, arr, index, target, cfg) :
               p \in {ProbeHeap(h, arr, index, mid, cfg)}})

\* the heap after findMinimalSEEForTarget; a call that throws allocates nothing
findMinimalSEEForTargetHeap(h, arr, code, target, cfg) ==
  LET index == FindIndex(DerefSubjects(h, arr), code)
  IN  IF index = 0 THEN h
      ELSE LET see == h[h[arr][index]].see
           IN  TheValue({
                 IF SgpaAt(h, arr, cfg) >= target THEN p.heap
                 ELSE BinarySearchHeap(p.heap, see, cfg.maxSEE, arr, index, target, cfg) :
                   p \in {ProbeHeap(calculateSGPAHeap(h, arr, cfg), arr, index,
                                    MinOf(see + 1, cfg.maxSEE), cfg)}})

\* the while loop of greedyGlobalPlan on the working copy at address work
RECURSIVE GreedyLoopHeap(_, _, _, _, _, _)
GreedyLoopHeap(h, work, sgpa, iters, target, cfg) ==
  IF ~(sgpa < target /\ iters < maxIterations) THEN h
  ELSE IF \A i \in 1..Len(h[work]) : h[h[work][i]].see >= cfg.maxSEE THEN h
  ELSE TheValue({
         IF best = 0 THEN probed
         ELSE TheValue({
                IF SgpaAt(after, work, cfg) >= target THEN after
                ELSE GreedyLoopHeap(after, work, SgpaAt(after, work, cfg),
                                    iters + 1, target, cfg) :
                  after \in {calculateSGPAHeap(
                     [Append(probed, calculateCriticalSEEValues(
                                       probed[probed[work][best]].cie,
                                       ConfigOf(probed, cfg)))
                        EXCEPT ![probed[work][best]].see =
                                 toSeeOf(probed[probed[work][best]],
                                         ConfigOf(probed, cfg))],
                     work, cfg)}}) :
           probed \in {ProbeEachHeap(h, work, 1, cfg)},
           best   \in {bestSubjectIndex(DerefSubjects(h, work), sgpa,
                                        ConfigOf(h, cfg))}})

\* the working copy, the loop on it, then the maxSubjects copies of the
\* caller's subjects
greedyGlobalPlanHeap(h, arr, target, cfg) ==
  TheValue({
    TheValue({
      TheValue({calculateSGPAHeap(m.heap, m.addr, cfg) :
                  m \in {CopySubjectsWithSee(
                           GreedyLoopHeap(start, w.addr, SgpaAt(start, w.addr, cfg),
                                          0, target, cfg),
                           arr, cfg.maxSEE)}}) :
        start \in {calculateSGPAHeap(w.heap, w.addr, cfg)}}) :
      w \in {CopySubjects(h, arr)}})

calculateMarginalGainsHeap(h, arr, cfg) ==
  ProbeEachHeap(calculateSGPAHeap(h, arr, cfg), arr, 1, cfg)

\* for (let see = 0; see <= config.maxSEE; see += step)
RECURSIVE CurveLoopHeap(_, _, _, _, _, _)
CurveLoopHeap(h, arr, index, see, step, cfg) ==
  IF see > cfg.maxSEE THEN h
  ELSE TheValue({CurveLoopHeap(gpForTotalHeap(p.heap), arr, index, see + step,
                               step, cfg) :
                   p \in {ProbeHeap(h, arr, index, see, cfg)}})

generateSGPACurveHeap(h, arr, code, step, cfg) ==
  LET index == FindIndex(DerefSubjects(h, arr), code)
  IN  IF index = 0 THEN h ELSE CurveLoopHeap(h, arr, index, 0, step, cfg)

\* the criticals array is new; it is filled and sorted in place
calculateCriticalSEEValuesHeap(h, cie, cfg) ==
  Append(h, calculateCriticalSEEValues(cie, ConfigOf(h, cfg)))

\* one call of an engine operation on the caller's memory: after is the
\* heap when it returns or throws; the cells it allocated are dropped; arg
\* is the subject code or cie passed besides subjects and config (0: none)
HeapCall(op, arg, after, threw) ==
  /\ pc = "idle"
  /\ heap' = SubSeq(after, 1, Len(heap))
  /\ ret' = [op |-> op, arg |-> arg, threw |-> threw,
             allocated |-> Len(after) - Len(heap)]
  /\ pc' = "done"
  /\ UNCHANGED <<config, subjects, targetSgpa, workingSubjects, steps,
                 iterations, currentResult, semesters, appVars>>

CurveSteps == {50, 100}

\* subject lists for the calls whose memory is followed: what is written
\* depends on which subjects are below maxSEE and on whether steps are made
HeapSubjectLists ==
  {[i \in 1..Len(raw) |-> [code |-> i, cie |-> raw[i][1], see |-> raw[i][2],
                            credits |-> raw[i][3]]] :
     raw \in SeqsUpTo({40, 45} \X {59, 100} \X {3}, MaxSubjects)}

InitHeap ==
  /\ config \in Configs
  /\ subjects \in HeapSubjectLists
  /\ targetSgpa \in TargetValues
  /\ pc = "idle"
  /\ ret = NoResult
  /\ workingSubjects = <<>>
  /\ steps = <<>>
  /\ iterations = 0
  /\ currentResult = NoResult
  /\ semesters = <<>>
  /\ heap = CallerHeap(subjects, config)
  /\ db = NoRows
  /\ requests = NoRequests
  /\ slider = NoSlider

HeapCalculateSGPA ==
  \E after \in {calculateSGPAHeap(heap, SubjectsAddr, config)} :
    HeapCall("calculateSGPA", 0, after, FALSE)

HeapFindMinimalSEEForTarget ==
  \E code \in 1..(MaxSubjects + 1) :
    \E after \in {findMinimalSEEForTargetHeap(heap, SubjectsAddr, code,
                                              targetSgpa, config)} :
      HeapCall("findMinimalSEEForTarget", code, after,
               FindIndex(DerefSubjects(heap, SubjectsAddr), code) = 0)

HeapGreedyGlobalPlan ==
  \E after \in {greedyGlobalPlanHeap(heap, SubjectsAddr, targetSgpa, config)} :
    HeapCall("greedyGlobalPlan", 0, after, FALSE)

HeapCalculateCriticalSEEValues ==
  \E cie \in CieValues :
    \E after \in {calculateCriticalSEEValuesHeap(heap, cie, config)} :
      HeapCall("calculateCriticalSEEValues", cie, after, FALSE)

HeapCalculateMarginalGains ==
  \E after \in {calculateMarginalGainsHeap(heap, SubjectsAddr, config)} :
    HeapCall("calculateMarginalGains", 0, after, FALSE)

HeapGenerateSGPACurve ==
  \E code \in 1..(MaxSubjects + 1), step \in CurveSteps :
    \E after \in {generateSGPACurveHeap(heap, SubjectsAddr, code, step, config)} :
      HeapCall("generateSGPACurve", code, after, FALSE)

NextHeap ==
  \/ HeapCalculateSGPA
  \/ HeapFindMinimalSEEForTarget
  \/ HeapGreedyGlobalPlan
  \/ HeapCalculateCriticalSEEValues
  \/ HeapCalculateMarginalGains
  \/ HeapGenerateSGPACurve

SpecHeap == InitHeap /\ [][NextHeap]_vars

(***************************************************************************)
(* The engine on unvalidated input (SGPAEngine.ts): the exported functions *)
(* take whatever the caller passes; validateSubject is a separate export.  *)
(***************************************************************************)
\* the default table without its floor bucket {min: 0}
NoFloorConfig ==
  [DEFAULT_GRADING_CONFIG EXCEPT !.buckets = SubSeq(@, 1, Len(@) - 1)]

UncheckedConfigs == {DEFAULT_GRADING_CONFIG, NoFloorConfig}

\* Subject records a caller can pass: two inside the domain, and one for
\* each way of leaving it.  The code 0 stands for the empty string.
UncheckedSubjects ==
  { [code |-> 1, name |-> "Maths", cie |-> 40, see |-> 60,  credits |-> 4],
    [code |-> 1, name |-> "Maths", cie |-> 10, see |-> 20,  credits |-> 3],
    [code |-> 1, name |-> "Maths", cie |-> -5, see |-> 60,  credits |-> 4],
    [code |-> 1, name |-> "Maths", cie |-> 55, see |-> 60,  credits |-> 4],
    [code |-> 1, name |-> "Maths", cie |-> 40, see |-> -10, credits |-> 4],
    [code |-> 1, name |-> "Maths", cie |-> 40, see |-> 120, credits |-> 4],
    [code |-> 1, name |-> "Maths", cie |-> 40, see |-> 60,  credits |-> 0],
    [code |-> 0, name |-> "Maths", cie |-> 40, see |-> 60,  credits |-> 4],
    [code |-> 1, name |-> "",      cie |-> 40, see |-> 60,  credits |-> 4] }

validateSubject(subject, cfg) ==
  LET errors ==
        (IF subject.cie < 0 \/ subject.cie > cfg.maxCIE
         THEN <<"CIE must be between 0 and maxCIE">> ELSE <<>>)
        \o (IF subject.see < 0 \/ subject.see > cfg.maxSEE
            THEN <<"SEE must be between 0 and maxSEE">> ELSE <<>>)
        \o (IF subject.credits <= 0
            THEN <<"Credits must be positive">> ELSE <<>>)
        \o (IF subject.code = 0 \/ subject.name = ""
            THEN <<"Subject code and name are required">> ELSE <<>>)
  IN  [valid |-> errors = <<>>, errors |-> errors]

InitUnchecked ==
  /\ config \in UncheckedConfigs
  /\ subjects \in SeqsUpTo(UncheckedSubjects, MaxSubjects)
  /\ targetSgpa \in TargetValues
  /\ pc = "idle"
  /\ ret = NoResult
  /\ workingSubjects = <<>>
  /\ steps = <<>>
  /\ iterations = 0
  /\ currentResult = NoResult
  /\ semesters = <<>>
  /\ heap = <<>>
  /\ db = NoRows
  /\ requests = NoRequests
  /\ slider = NoSlider

\* the outcome of a call: error is the exception thrown, "none" on return
UncheckedCall(op, error, val) ==
  /\ pc = "idle"
  /\ ret' = [op |-> op, error |-> error, val |-> val]
  /\ pc' = "done"
  /\ UNCHANGED <<config, subjects, targetSgpa, workingSubjects, steps,
                 iterations, currentResult, semesters, heap, appVars>>

\* calculateSGPA has no throw statement and calls none that has
UncheckedCalculateSGPA ==
  UncheckedCall("calculateSGPA", "none", calculateSGPA(subjects, config))

\* the only throw of findMinimalSEEForTarget is the not-found error
UncheckedFindMinimalSEEForTarget ==
  \E code \in 0..1 :
    \E plan \in {findMinimalSEEForTarget(subjects, code, targetSgpa, config)} :
      UncheckedCall("findMinimalSEEForTarget",
                    IF plan.threw THEN "not-found" ELSE "none", plan)

\* gpForTotal on the total of a subject of the list; it has no throw statement
UncheckedGpForTotal ==
  \E i \in 1..Len(subjects) :
    \E total \in {calculateTotal(subjects[i].cie, subjects[i].see, config)} :
      UncheckedCall("gpForTotal", "none",
                    [total |-> total, gp |-> gpForTotal(total, config)])

ValidateSubject ==
  \E i \in 1..Len(subjects) :
    UncheckedCall("validateSubject", "none",
                  [index |-> i, result |-> validateSubject(subjects[i], config)])

NextUnchecked ==
  \/ UncheckedCalculateSGPA
  \/ UncheckedFindMinimalSEEForTarget
  \/ UncheckedGpForTotal
  \/ ValidateSubject

SpecUnchecked == InitUnchecked /\ [][NextUnchecked]_vars

(***************************************************************************)
(* The rounding helpers on their own: roundTo (SGPAEngine.ts) and round2   *)
(* (passport-config.ts) applied to a ratio num / den of either sign.       *)
(***************************************************************************)
MaxNumerator == 30

\* credit totals: the eighths, tenths and twentieths give the ties
Denominators == {1, 3, 8, 10, 20}

\* config.roundingDigits, and roundingDigits + 2 of the marginal gains
RoundingDigits == {1, 2, 3}

InitRound ==
  /\ config = DEFAULT_GRADING_CONFIG
  /\ subjects = <<>>
  /\ targetSgpa = 0
  /\ pc = "idle"
  /\ ret = NoResult
  /\ workingSubjects = <<>>
  /\ steps = <<>>
  /\ iterations = 0
  /\ currentResult = NoResult
  /\ semesters = <<>>
  /\ heap = <<>>
  /\ db = NoRows
  /\ requests = NoRequests
  /\ slider = NoSlider

RoundTo ==
  /\ pc = "idle"
  /\ \E num \in (-MaxNumerator)..MaxNumerator, den \in Denominators,
        digits \in RoundingDigits :
       ret' = [op |-> "roundTo", num |-> num, den |-> den, digits |-> digits,
               val |-> roundTo(num, den, digits)]
  /\ pc' = "done"
  /\ UNCHANGED <<config, subjects, targetSgpa, workingSubjects, steps,
                 iterations, currentResult, semesters, heap, appVars>>

Round2 ==
  /\ pc = "idle"
  /\ \E num \in (-MaxNumerator)..MaxNumerator, den \in Denominators :
       ret' = [op |-> "round2", num |-> num, den |-> den, digits |-> 2,
               val |-> round2(num, den)]
  /\ pc' = "done"
  /\ UNCHANGED <<config, subjects, targetSgpa, workingSubjects, steps,
                 iterations, currentResult, semesters, heap, appVars>>

NextRound ==
  \/ RoundTo
  \/ Round2

SpecRound == InitRound /\ [][NextRound]_vars

(***************************************************************************)
(* greedyGlobalPlan with critical values that are not whole marks          *)
(* (SGPAEngine.ts).  When maxSEE / maxCIE is not an integer, seeCrit =     *)
(* (min - cie) * (maxSEE / maxCIE) is a fraction and the plan writes it to *)
(* the working copy.  In this section a see is held exactly, as a          *)
(* numerator over cfg.maxCIE (one mark is cfg.maxCIE units); totals stay   *)
(* numerators over cfg.maxSEE.                                             *)
(***************************************************************************)
\* A caller-supplied table on a scale where one SEE mark is two marks of
\* the total (maxSEE / maxCIE = 0.5), with cutoffs one mark apart.
CoarseConfig ==
  [maxCIE |-> 100, maxSEE |-> 50, roundingDigits |-> 1,
   buckets |-> << [min |-> 102, gp |-> 8], [min |-> 101, gp |-> 7],
                  [min |-> 100, gp |-> 6], [min |-> 0, gp |-> 4] >>]

ExactConfigs == {DEFAULT_GRADING_CONFIG, CoarseConfig}

\* a whole number of marks as a see of this section
Marks(see, cfg) == see * cfg.maxCIE

\* see / (maxSEE / maxCIE), as a numerator over cfg.maxSEE
scaleSEEExact(see, cfg) == see

calculateTotalExact(cie, see, cfg) == cie * cfg.maxSEE + scaleSEEExact(see, cfg)

SubjectResultOfExact(s, cfg) ==
  TheValue({[code |-> s.code, cie |-> s.cie, see |-> s.see,
             seeScaled |-> scaleSEEExact(s.see, cfg), total |-> total,
             gp |-> gp, weighted |-> calculateWeightedPoints(gp, s.credits),
             credits |-> s.credits] :
              total \in {calculateTotalExact(s.cie, s.see, cfg)},
              gp \in {gpForTotal(calculateTotalExact(s.cie, s.see, cfg), cfg)}})

calculateSGPAExact(subs, cfg) ==
  TheValue({
    LET totalCredits  == SumSeq([i \in 1..Len(results) |-> results[i].credits])
        totalWeighted == SumSeq([i \in 1..Len(results) |-> results[i].weighted])
        maxWeighted   == SumSeq(maxResults)
    IN  [subjects        |-> results,
         sgpa            |-> IF totalCredits > 0
                             THEN roundTo(totalWeighted, totalCredits, cfg.roundingDigits)
                             ELSE roundTo(0, 1, cfg.roundingDigits),
         totalCredits    |-> totalCredits,
         totalWeighted   |-> totalWeighted,
         maxSgpaIfAll100 |-> IF totalCredits > 0
                             THEN roundTo(maxWeighted, totalCredits, cfg.roundingDigits)
                             ELSE roundTo(0, 1, cfg.roundingDigits)] :
      results    \in {<<>> \o [i \in 1..Len(subs) |-> SubjectResultOfExact(subs[i], cfg)]},
      maxResults \in {<<>> \o [i \in 1..Len(subs) |->
                        calculateWeightedPoints(
                          gpForTotal(calculateTotalExact(subs[i].cie,
                                                         Marks(cfg.maxSEE, cfg), cfg),
                                     cfg),
                          subs[i].credits)]} })

\* (cutoffTotal - cie) * (maxSEE / maxCIE), clamped into [0, maxSEE]
CriticalOfExact(bucket, cie, cfg) ==
  LET seeCrit == (bucket.min - cie) * cfg.maxSEE
  IN  [cutoffTotal |-> bucket.min,
       seeCrit     |-> MaxOf(0, MinOf(Marks(cfg.maxSEE, cfg), seeCrit)),
       gp          |-> bucket.gp,
       reachable   |-> seeCrit >= 0 /\ seeCrit <= Marks(cfg.maxSEE, cfg)]

calculateCriticalSEEValuesExact(cie, cfg) ==
  SortCriticals([i \in 1..Len(cfg.buckets) |->
                   CriticalOfExact(cfg.buckets[i], cie, cfg)])

\* the probe of the marginal gain: see + 1, clamped at maxSEE
ProbeSubjectsExact(subs, index, cfg) ==
  WithSee(subs, index, MinOf(subs[index].see + Marks(1, cfg), Marks(cfg.maxSEE, cfg)))

RECURSIVE BestSubjectExact(_, _, _, _, _, _)
BestSubjectExact(i, bestIndex, bestGain, working, currentSgpa, cfg) ==
  IF i > Len(working) THEN bestIndex
  ELSE IF working[i].see >= Marks(cfg.maxSEE, cfg)
       THEN BestSubjectExact(i + 1, bestIndex, bestGain, working, currentSgpa, cfg)
       ELSE TheValue({
              IF gain > bestGain
              THEN BestSubjectExact(i + 1, i, gain, working, currentSgpa, cfg)
              ELSE BestSubjectExact(i + 1, bestIndex, bestGain, working,
                                    currentSgpa, cfg) :
                gain \in {calculateSGPAExact(ProbeSubjectsExact(working, i, cfg),
                                             cfg).sgpa - currentSgpa}})

toSeeOfExact(subject, cfg) ==
  TheValue({
    IF nextCritical # <<>>
    THEN MinOf(nextCritical[1].seeCrit, Marks(cfg.maxSEE, cfg))
    ELSE MinOf(subject.see + Marks(1, cfg), Marks(cfg.maxSEE, cfg)) :
      nextCritical \in {FindNextCritical(
                          calculateCriticalSEEValuesExact(subject.cie, cfg),
                          subject.see)}})

\* lists of subjects with whole marks, inside the domain of the config
ExactSubjectLists(cfg) ==
  {[i \in 1..Len(raw) |-> [code |-> i, cie |-> raw[i][1],
                            see |-> Marks(raw[i][2], cfg), credits |-> 3]] :
     raw \in SeqsUpTo({cfg.maxCIE - 10, cfg.maxCIE - 1} \X {0, 4, 19}, MaxSubjects)}

\* targets above every list, and one that some lists already meet
ExactTargets == TargetValues \cup {6000}

InitExact ==
  /\ config \in ExactConfigs
  /\ subjects \in ExactSubjectLists(config)
  /\ targetSgpa \in ExactTargets
  /\ pc = "idle"
  /\ ret = NoResult
  /\ workingSubjects = <<>>
  /\ steps = <<>>
  /\ iterations = 0
  /\ currentResult = NoResult
  /\ semesters = <<>>
  /\ heap = <<>>
  /\ db = NoRows
  /\ requests = NoRequests
  /\ slider = NoSlider

ExactStart ==
  /\ pc = "idle"
  /\ workingSubjects' = subjects
  /\ steps' = <<>>
  /\ currentResult' = calculateSGPAExact(subjects, config)
  /\ iterations' = 0
  /\ pc' = "loop"
  /\ UNCHANGED <<config, subjects, targetSgpa, ret, semesters, heap, appVars>>

ExactIterate ==
  /\ pc = "loop"
  /\ LoopCondition(currentResult.sgpa, targetSgpa, iterations)
  /\ iterations' = iterations + 1
  /\ LET allAtMax == \A i \in 1..Len(workingSubjects) :
                        workingSubjects[i].see >= Marks(config.maxSEE, config)
     IN  IF allAtMax
         THEN /\ pc' = "exit"
              /\ UNCHANGED <<workingSubjects, steps, currentResult>>
         ELSE \E best \in {BestSubjectExact(1, 0, 0, workingSubjects,
                                            currentResult.sgpa, config)} :
                IF best = 0
                THEN /\ pc' = "exit"
                     /\ UNCHANGED <<workingSubjects, steps, currentResult>>
                ELSE LET subject == workingSubjects[best]
                         fromSee == subject.see
                     IN  \E toSee \in {toSeeOfExact(subject, config)} :
                         \E result \in {calculateSGPAExact(
                                           WithSee(workingSubjects, best, toSee),
                                           config)} :
                           /\ workingSubjects' = WithSee(workingSubjects, best, toSee)
                           /\ currentResult' = result
                           /\ steps' = Append(steps,
                                          [code |-> subject.code,
                                           fromSee |-> fromSee, toSee |-> toSee,
                                           increaseSeeBy |-> toSee - fromSee,
                                           sgpaAfter |-> result.sgpa])
                           /\ pc' = IF result.sgpa >= targetSgpa
                                    THEN "exit" ELSE "loop"
  /\ UNCHANGED <<config, subjects, targetSgpa, ret, semesters, heap, appVars>>

ExactLoopEnd ==
  /\ pc = "loop"
  /\ ~ LoopCondition(currentResult.sgpa, targetSgpa, iterations)
  /\ pc' = "exit"
  /\ UNCHANGED <<config, subjects, targetSgpa, ret, workingSubjects, steps,
                 iterations, currentResult, semesters, heap, appVars>>

ExactReturn ==
  /\ pc = "exit"
  /\ LET maxSubjects == [i \in 1..Len(subjects) |->
                           [subjects[i] EXCEPT !.see = Marks(config.maxSEE, config)]]
         maxResult   == calculateSGPAExact(maxSubjects, config)
     IN  ret' = [op  |-> "greedyGlobalPlan",
                 val |-> [steps              |-> steps,
                          finalSgpa          |-> currentResult.sgpa,
                          targetReached      |-> currentResult.sgpa >= targetSgpa,
                          bestAttainableSgpa |-> maxResult.sgpa]]
  /\ pc' = "done"
  /\ UNCHANGED <<config, subjects, targetSgpa, workingSubjects, steps,
                 iterations, currentResult, semesters, heap, appVars>>

NextExact ==
  \/ ExactStart
  \/ ExactIterate
  \/ ExactLoopEnd
  \/ ExactReturn

SpecExact == InitExact /\ [][NextExact]_vars

(***************************************************************************)
(* The server: tables and subject routes (src/unnamed/part_006).          *)
(* db holds the two tables as sequences of rows in creation order, the    *)
(* numbers of ids issued and the users that have an account.  A row's     *)
(* total is a numerator over SeeDivisor, as computeSubjectMetrics returns *)
(* it.  A request body is a record; a field the body does not carry is    *)
(* undefined.  The credits of a body are in tenths (30 is 3, 5 is 0.5),   *)
(* the credits of a row are whole.                                         *)
(***************************************************************************)
Users == {1, 2}

Has(body, f) == f \in DOMAIN body

\* parseInt of a number given in tenths: the digits before the point
parseInt(tenths) ==
  IF tenths >= 0 THEN tenths \div 10 ELSE 0 - ((0 - tenths) \div 10)

\* parseFloat of a JSON number
parseFloat(n) == n

\* the data of prisma.subject.create
SubjectRowOf(id, userId, semesterId, code, name, cieVal, seeVal, creditsVal) ==
  LET metrics == computeSubjectMetrics(cieVal, seeVal, creditsVal)
  IN  [id |-> id, userId |-> userId, semesterId |-> semesterId,
       code |-> code, name |-> name,
       cie |-> cieVal, see |-> seeVal, credits |-> creditsVal,
       total |-> metrics.total, gp |-> metrics.gp, weighted |-> metrics.weighted]

\* prisma.subject.findFirst({ where: { id, userId } }): the rows it matches
OwnSubject(d, id, userId) ==
  {i \in 1..Len(d.subject) : d.subject[i].id = id /\ d.subject[i].userId = userId}

\* prisma.subject.findMany({ where: { userId } })
SubjectsOfUser(d, userId) ==
  SelectSeq(d.subject, LAMBDA s : s.userId = userId)

\* prisma.subject.update({ where: { id }, data })
UpdateSubjectRow(d, id, data) ==
  [d EXCEPT !.subject =
     [i \in 1..Len(@) |->
        IF @[i].id = id
        THEN [f \in DOMAIN @[i] |-> IF f \in DOMAIN data THEN data[f] ELSE @[i][f]]
        ELSE @[i]]]

SemesterExists(d, id) == \E i \in 1..Len(d.semester) : d.semester[i].id = id

SubjectExists(d, id) == \E i \in 1..Len(d.subject) : d.subject[i].id = id

\* PUT /:id, the validation of the body
PutInvalid(body) ==
  \/ Has(body, "cie") /\ (body.cie < 0 \/ body.cie > 50)
  \/ Has(body, "see") /\ (body.see < 0 \/ body.see > 100)
  \/ Has(body, "credits") /\ body.credits <= 0

\* PUT /:id, the data it writes, from the row it read and the body
PutData(existing, body) ==
  LET cieVal     == IF Has(body, "cie") THEN parseFloat(body.cie) ELSE existing.cie
      seeVal     == IF Has(body, "see") THEN parseFloat(body.see) ELSE existing.see
      creditsVal == IF Has(body, "credits") THEN parseInt(body.credits)
                    ELSE existing.credits
      metrics    == computeSubjectMetrics(cieVal, seeVal, creditsVal)
      optional   == {f \in {"code", "name"} : Has(body, f) /\ body[f] # ""}
                      \cup {f \in {"semesterId"} : Has(body, f)}
  IN  [f \in {"cie", "see", "credits", "total", "gp", "weighted"} \cup optional |->
         CASE f = "cie"      -> cieVal
           [] f = "see"      -> seeVal
           [] f = "credits"  -> creditsVal
           [] f = "total"    -> metrics.total
           [] f = "gp"       -> metrics.gp
           [] f = "weighted" -> metrics.weighted
           [] OTHER          -> body[f]]

\* PATCH /:id/see, the validation of the body
PatchInvalid(body) ==
  \/ ~Has(body, "see")
  \/ body.see < 0
  \/ body.see > 100

\* slip: the new see written without the metrics
PatchDataSeeOnly(existing, body) == [see |-> parseFloat(body.see)]

\* PATCH /:id/see, the data it writes
PatchData(existing, body) ==
  LET seeVal  == parseFloat(body.see)
      metrics == computeSubjectMetrics(existing.cie, seeVal, existing.credits)
  IN  [see |-> seeVal, total |-> metrics.total, gp |-> metrics.gp,
       weighted |-> metrics.weighted]

\* POST /recalculate, the data it writes for one row it read
RecalculateData(s) ==
  LET metrics == computeSubjectMetrics(s.cie, s.see, s.credits)
  IN  [total |-> metrics.total, gp |-> metrics.gp, weighted |-> metrics.weighted]

\* prisma.$transaction(updates): every update in turn; an update of a row that
\* is gone throws and the transaction is rolled back
RECURSIVE RecalculateAll(_, _, _)
RecalculateAll(d, rows, i) ==
  IF i > Len(rows) THEN d
  ELSE RecalculateAll(UpdateSubjectRow(d, rows[i].id, RecalculateData(rows[i])),
                      rows, i + 1)

RecalculateThrows(d, rows) ==
  \E i \in 1..Len(rows) : ~SubjectExists(d, rows[i].id)

\* the response of a request and the tables after it
Respond(op, userId, status, d) ==
  /\ ret' = [op |-> op, user |-> userId, status |-> status]
  /\ db' = d

(***************************************************************************)
(* Requests of one user on one subject that overlap.  A handler runs to   *)
(* its first await, the server turns to another request, and the handler  *)
(* goes on when its query has answered: the read and the write of one     *)
(* request are two steps.  requests.inflight holds the requests that have *)
(* read and not yet written, each with what it read.  The start is the    *)
(* state after the user has signed in and bulk-created one subject, which *)
(* is also what registers the recalculate route.                          *)
(***************************************************************************)
MaxRequests == 2

RaceRows ==
  [users |-> {1},
   semester |-> <<[id |-> 1, userId |-> 1, name |-> "Current Semester",
                   isActive |-> TRUE]>>,
   subject |-> <<SubjectRowOf(1, 1, 1, "MA101", "Maths", 40, 60, 3)>>,
   semesterIds |-> 1, subjectIds |-> 1]

RacePutBodies == {[cie |-> 10], [cie |-> 45], [credits |-> 40], [cie |-> 60]}

RacePatchBodies == {[see |-> 80], [see |-> 20], [see |-> 120]}

RaceIds == {1, 2}

InitRace ==
  /\ config = DEFAULT_GRADING_CONFIG
  /\ subjects = <<>>
  /\ targetSgpa = 0
  /\ pc = "idle"
  /\ ret = NoResult
  /\ workingSubjects = <<>>
  /\ steps = <<>>
  /\ iterations = 0
  /\ currentResult = NoResult
  /\ semesters = <<>>
  /\ heap = <<>>
  /\ db = RaceRows
  /\ requests = [NoRequests EXCEPT !.routes = {"recalculate"}]
  /\ slider = NoSlider

\* a handler that awaits its write
Await(r) ==
  requests' = [requests EXCEPT !.inflight = Append(@, r), !.begun = @ + 1]

\* a handler that has answered without a write
Answered == requests' = [requests EXCEPT !.begun = @ + 1]

\* the handler at position k has written and answered
Written(k) ==
  requests' = [requests EXCEPT !.inflight =
                 SubSeq(@, 1, k - 1) \o SubSeq(@, k + 1, Len(@))]

\* PUT /:id up to the await of prisma.subject.update
PutSubjectFind(userId, id, body) ==
  /\ requests.begun < MaxRequests
  /\ IF OwnSubject(db, id, userId) = {}
     THEN Respond("PUT", userId, 404, db) /\ Answered
     ELSE IF PutInvalid(body)
     THEN Respond("PUT", userId, 400, db) /\ Answered
     ELSE /\ \E i \in OwnSubject(db, id, userId) :
               Await([kind |-> "PUT", user |-> userId, id |-> id, body |-> body,
                      existing |-> db.subject[i]])
          /\ UNCHANGED <<db, ret>>
  /\ UNCHANGED <<config, subjects, targetSgpa, pc, workingSubjects, steps,
                 iterations, currentResult, semesters, heap, slider>>

\* PUT /:id from prisma.subject.update on
PutSubjectUpdate(k) ==
  /\ k \in 1..Len(requests.inflight)
  /\ requests.inflight[k].kind = "PUT"
  /\ LET r == requests.inflight[k]
     IN  IF SubjectExists(db, r.id)
         THEN Respond("PUT", r.user, 200,
                      UpdateSubjectRow(db, r.id, PutData(r.existing, r.body)))
         ELSE Respond("PUT", r.user, 500, db)
  /\ Written(k)
  /\ UNCHANGED <<config, subjects, targetSgpa, pc, workingSubjects, steps,
                 iterations, currentResult, semesters, heap, slider>>

\* PATCH /:id/see up to the await of prisma.subject.update
PatchSeeFind(userId, id, body) ==
  /\ requests.begun < MaxRequests
  /\ IF PatchInvalid(body)
     THEN Respond("PATCH", userId, 400, db) /\ Answered
     ELSE IF OwnSubject(db, id, userId) = {}
     THEN Respond("PATCH", userId, 404, db) /\ Answered
     ELSE /\ \E i \in OwnSubject(db, id, userId) :
               Await([kind |-> "PATCH", user |-> userId, id |-> id, body |-> body,
                      existing |-> db.subject[i]])
          /\ UNCHANGED <<db, ret>>
  /\ UNCHANGED <<config, subjects, targetSgpa, pc, workingSubjects, steps,
                 iterations, currentResult, semesters, heap, slider>>

\* PATCH /:id/see from prisma.subject.update on
PatchSeeUpdate(k) ==
  /\ k \in 1..Len(requests.inflight)
  /\ requests.inflight[k].kind = "PATCH"
  /\ LET r == requests.inflight[k]
     IN  IF SubjectExists(db, r.id)
         THEN Respond("PATCH", r.user, 200,
                      UpdateSubjectRow(db, r.id, PatchData(r.existing, r.body)))
         ELSE Respond("PATCH", r.user, 500, db)
  /\ Written(k)
  /\ UNCHANGED <<config, subjects, targetSgpa, pc, workingSubjects, steps,
                 iterations, currentResult, semesters, heap, slider>>

\* POST /recalculate up to the await of prisma.$transaction
RecalculateFind(userId) ==
  /\ requests.begun < MaxRequests
  /\ "recalculate" \in requests.routes
  /\ Await([kind |-> "recalculate", user |-> userId,
            existing |-> SubjectsOfUser(db, userId)])
  /\ UNCHANGED <<db, ret>>
  /\ UNCHANGED <<config, subjects, targetSgpa, pc, workingSubjects, steps,
                 iterations, currentResult, semesters, heap, slider>>

\* POST /recalculate from prisma.$transaction on
RecalculateUpdate(k) ==
  /\ k \in 1..Len(requests.inflight)
  /\ requests.inflight[k].kind = "recalculate"
  /\ LET r == requests.inflight[k]
     IN  IF RecalculateThrows(db, r.existing)
         THEN Respond("recalculate", r.user, 500, db)
         ELSE Respond("recalculate", r.user, 200, RecalculateAll(db, r.existing, 1))
  /\ Written(k)
  /\ UNCHANGED <<config, subjects, targetSgpa, pc, workingSubjects, steps,
                 iterations, currentResult, semesters, heap, slider>>

NextRace ==
  \/ \E id \in RaceIds, body \in RacePutBodies : PutSubjectFind(1, id, body)
  \/ \E k \in 1..MaxRequests : PutSubjectUpdate(k)
  \/ \E id \in RaceIds, body \in RacePatchBodies : PatchSeeFind(1, id, body)
  \/ \E k \in 1..MaxRequests : PatchSeeUpdate(k)
  \/ RecalculateFind(1)
  \/ \E k \in 1..MaxRequests : RecalculateUpdate(k)

SpecRace == InitRace /\ [][NextRace]_vars

(***************************************************************************)
(* Requests served one after the other: every handler runs from its       *)
(* first line to its response before the next request is taken            *)
(* (src/unnamed/part_003, part_004, part_006; the sign-in callback of     *)
(* src/backend/src/auth/passport-config.ts).  The schema is not part of   *)
(* the sources: a subject row refers to an existing semester row, and     *)
(* deleting a semester that still has subjects either deletes them with   *)
(* it or is refused by the database, whichever the schema says.           *)
(***************************************************************************)
\* prisma.semester.findFirst({ where: { id, userId } }): the rows it matches
OwnSemester(d, id, userId) ==
  {i \in 1..Len(d.semester) : d.semester[i].id = id /\ d.semester[i].userId = userId}

\* prisma.semester.findFirst({ where: { userId, isActive: true } }): the rows
\* it may return
ActiveSemesters(d, userId) ==
  {i \in 1..Len(d.semester) : d.semester[i].userId = userId /\ d.semester[i].isActive}

\* prisma.semester.updateMany({ where: { userId, isActive: true },
\*                              data: { isActive: false } })
DeactivateAll(d, userId) ==
  [d EXCEPT !.semester =
     [i \in 1..Len(@) |->
        IF @[i].userId = userId /\ @[i].isActive
        THEN [@[i] EXCEPT !.isActive = FALSE] ELSE @[i]]]

\* prisma.semester.create({ data: { userId, name, isActive } })
WithSemester(d, userId, name, isActive) ==
  [d EXCEPT !.semester = Append(@, [id |-> d.semesterIds + 1, userId |-> userId,
                                    name |-> name, isActive |-> isActive]),
            !.semesterIds = @ + 1]

\* prisma.semester.update({ where: { id }, data: { isActive: true } })
Activate(d, id) ==
  [d EXCEPT !.semester =
     [i \in 1..Len(@) |->
        IF @[i].id = id THEN [@[i] EXCEPT !.isActive = TRUE] ELSE @[i]]]

\* prisma.subject.create({ data })
WithSubject(d, userId, semesterId, sub) ==
  [d EXCEPT !.subject =
     Append(@, SubjectRowOf(d.subjectIds + 1, userId, semesterId, sub.code, sub.name,
                            parseFloat(sub.cie),
                            IF Has(sub, "see") THEN parseFloat(sub.see) ELSE 0,
                            parseInt(sub.credits))),
            !.subjectIds = @ + 1]

\* the semester a new subject goes to, with the tables after the lookup: the
\* active semester of the user, or a new 'Current Semester'
ActiveOrNew(d, userId) ==
  IF ActiveSemesters(d, userId) = {}
  THEN {[db |-> WithSemester(d, userId, "Current Semester", TRUE),
         id |-> d.semesterIds + 1]}
  ELSE {[db |-> d, id |-> d.semester[i].id] : i \in ActiveSemesters(d, userId)}

\* POST /, targetSemesterId
TargetSemester(d, userId, body) ==
  IF Has(body, "semesterId") THEN {[db |-> d, id |-> body.semesterId]}
  ELSE ActiveOrNew(d, userId)

\* POST /, the validation of the body: the status it answers, 0 when it goes on
PostInvalid(body) ==
  IF \/ ~Has(body, "code") \/ ~Has(body, "name")
     \/ ~Has(body, "cie") \/ ~Has(body, "credits") THEN 400
  ELSE IF body.code = "" \/ body.name = "" THEN 400
  ELSE IF body.cie < 0 \/ body.cie > 50 THEN 400
  ELSE IF Has(body, "see") /\ (body.see < 0 \/ body.see > 100) THEN 400
  ELSE IF body.credits <= 0 THEN 400
  ELSE 0

\* semesters of a user with their subjects:
\* prisma.semester.findMany({ where: { userId }, include: { subjects: true } })
SemestersWithSubjects(d, userId) ==
  LET own == SelectSeq(d.semester, LAMBDA m : m.userId = userId)
  IN  [i \in 1..Len(own) |->
         [id |-> own[i].id,
          subjects |-> SelectSeq(d.subject, LAMBDA s : s.semesterId = own[i].id)]]

\* prisma.subject.createMany of the bulk transaction
RECURSIVE WithSubjects(_, _, _, _, _)
WithSubjects(d, userId, semesterId, subs, i) ==
  IF i > Len(subs) THEN d
  ELSE WithSubjects(WithSubject(d, userId, semesterId, subs[i]),
                    userId, semesterId, subs, i + 1)

serverIdle ==
  /\ requests.inflight = <<>>
  /\ UNCHANGED <<config, subjects, targetSgpa, pc, workingSubjects, steps,
                 iterations, currentResult, semesters, heap, slider>>

\* GoogleStrategy verify callback
Login(userId) ==
  /\ serverIdle
  /\ userId \notin db.users => db.semesterIds < MaxSemesters
  /\ IF userId \notin db.users
     THEN Respond("login", userId, 302,
                  WithSemester([db EXCEPT !.users = @ \cup {userId}],
                               userId, "Current Semester", TRUE))
     ELSE Respond("login", userId, 302, db)
  /\ UNCHANGED requests

\* POST /api/semesters
CreateSemester(userId, body) ==
  /\ serverIdle
  /\ userId \in db.users
  /\ db.semesterIds < MaxSemesters
  /\ IF ~Has(body, "name") \/ body.name = ""
     THEN Respond("POST semester", userId, 400, db)
     ELSE Respond("POST semester", userId, 201,
                  WithSemester(IF Has(body, "isActive") /\ body.isActive
                               THEN DeactivateAll(db, userId) ELSE db,
                               userId, body.name,
                               IF Has(body, "isActive") THEN body.isActive ELSE TRUE))
  /\ UNCHANGED requests

\* PUT /api/semesters/:id/activate
ActivateSemester(userId, id) ==
  /\ serverIdle
  /\ userId \in db.users
  /\ IF OwnSemester(db, id, userId) = {}
     THEN Respond("PUT activate", userId, 404, db)
     ELSE Respond("PUT activate", userId, 200, Activate(DeactivateAll(db, userId), id))
  /\ UNCHANGED requests

\* DELETE /api/semesters/:id
DeleteSemester(userId, id) ==
  /\ serverIdle
  /\ userId \in db.users
  /\ IF OwnSemester(db, id, userId) = {}
     THEN Respond("DELETE semester", userId, 404, db)
     ELSE \/ Respond("DELETE semester", userId, 200,
                     [db EXCEPT !.semester = SelectSeq(@, LAMBDA m : m.id # id),
                                !.subject = SelectSeq(@, LAMBDA s : s.semesterId # id)])
          \/ /\ \E i \in 1..Len(db.subject) : db.subject[i].semesterId = id
             /\ Respond("DELETE semester", userId, 500, db)
  /\ UNCHANGED requests

\* GET /api/subjects/:id
GetSubject(userId, id) ==
  /\ serverIdle
  /\ userId \in db.users
  /\ IF OwnSubject(db, id, userId) = {}
     THEN ret' = [op |-> "GET subject", user |-> userId, status |-> 404]
     ELSE \E i \in OwnSubject(db, id, userId) :
            ret' = [op |-> "GET subject", user |-> userId, status |-> 200,
                    subject |-> db.subject[i]]
  /\ UNCHANGED <<db, requests>>

\* POST /api/subjects
CreateSubject(userId, body) ==
  /\ serverIdle
  /\ userId \in db.users
  /\ db.subjectIds < MaxSubjects
  /\ IF PostInvalid(body) # 0
     THEN Respond("POST", userId, PostInvalid(body), db)
     ELSE \E t \in TargetSemester(db, userId, body) :
            /\ t.db.semesterIds <= MaxSemesters
            /\ IF SemesterExists(t.db, t.id)
               THEN Respond("POST", userId, 201, WithSubject(t.db, userId, t.id, body))
               ELSE Respond("POST", userId, 500, t.db)
  /\ UNCHANGED requests

\* PUT /api/subjects/:id
UpdateSubject(userId, id, body) ==
  /\ serverIdle
  /\ userId \in db.users
  /\ IF OwnSubject(db, id, userId) = {}
     THEN Respond("PUT", userId, 404, db)
     ELSE IF PutInvalid(body)
     THEN Respond("PUT", userId, 400, db)
     ELSE IF Has(body, "semesterId") /\ ~SemesterExists(db, body.semesterId)
     THEN Respond("PUT", userId, 500, db)
     ELSE \E i \in OwnSubject(db, id, userId) :
            Respond("PUT", userId, 200,
                    UpdateSubjectRow(db, id, PutData(db.subject[i], body)))
  /\ UNCHANGED requests

\* PATCH /api/subjects/:id/see
PatchSee(userId, id, body) ==
  /\ serverIdle
  /\ userId \in db.users
  /\ IF PatchInvalid(body)
     THEN Respond("PATCH", userId, 400, db)
     ELSE IF OwnSubject(db, id, userId) = {}
     THEN Respond("PATCH", userId, 404, db)
     ELSE \E i \in OwnSubject(db, id, userId) :
            Respond("PATCH", userId, 200,
                    UpdateSubjectRow(db, id, PatchData(db.subject[i], body)))
  /\ UNCHANGED requests

\* DELETE /api/subjects/:id
DeleteSubject(userId, id) ==
  /\ serverIdle
  /\ userId \in db.users
  /\ IF OwnSubject(db, id, userId) = {}
     THEN Respond("DELETE", userId, 404, db)
     ELSE Respond("DELETE", userId, 200,
                  [db EXCEPT !.subject = SelectSeq(@, LAMBDA s : s.id # id)])
  /\ UNCHANGED requests

\* POST /api/subjects/bulk; its handler registers the recalculate route once
\* the rows are created
BulkCreate(userId, subs) ==
  /\ serverIdle
  /\ userId \in db.users
  /\ db.subjectIds + Len(subs) <= MaxSubjects
  /\ IF Len(subs) = 0
     THEN Respond("POST bulk", userId, 400, db) /\ UNCHANGED requests
     ELSE \E t \in ActiveOrNew(db, userId) :
            /\ t.db.semesterIds <= MaxSemesters
            /\ Respond("POST bulk", userId, 201,
                       WithSubjects(t.db, userId, t.id, subs, 1))
            /\ requests' = [requests EXCEPT !.routes = @ \cup {"recalculate"}]

\* POST /api/subjects/recalculate; without the route the router answers 404
Recalculate(userId) ==
  /\ serverIdle
  /\ userId \in db.users
  /\ IF "recalculate" \notin requests.routes
     THEN Respond("recalculate", userId, 404, db)
     ELSE Respond("recalculate", userId, 200,
                  RecalculateAll(db, SubjectsOfUser(db, userId), 1))
  /\ UNCHANGED requests

\* GET /api/calculations/cgpa
GetCgpa(userId) ==
  /\ serverIdle
  /\ userId \in db.users
  /\ LET sems == SemestersWithSubjects(db, userId)
     IN  IF Len(sems) = 0
         THEN ret' = [op |-> "GET cgpa", user |-> userId, status |-> 400]
         ELSE ret' = [op |-> "GET cgpa", user |-> userId, status |-> 200,
                      semesters |-> sems, result |-> aggregateCGPA(sems)]
  /\ UNCHANGED <<db, requests>>

InitServer ==
  /\ config = DEFAULT_GRADING_CONFIG
  /\ subjects = <<>>
  /\ targetSgpa = 0
  /\ pc = "idle"
  /\ ret = NoResult
  /\ workingSubjects = <<>>
  /\ steps = <<>>
  /\ iterations = 0
  /\ currentResult = NoResult
  /\ semesters = <<>>
  /\ heap = <<>>
  /\ db = NoRows
  /\ requests = NoRequests
  /\ slider = NoSlider

(***************************************************************************)
(* Subject requests with bodies inside and outside the accepted ranges.   *)
(* User 1 creates the subjects; both users send the other requests.       *)
(***************************************************************************)
ValidSubject == [code |-> "MA101", name |-> "Maths", cie |-> 40, see |-> 80,
                 credits |-> 30]

PostBodies ==
  {ValidSubject,
   [code |-> "MA101", name |-> "Maths", cie |-> 40, credits |-> 30],
   [name |-> "Maths", cie |-> 40, see |-> 80, credits |-> 30],
   [code |-> "MA101", name |-> "Maths", cie |-> 60, see |-> 80, credits |-> 30],
   [code |-> "MA101", name |-> "Maths", cie |-> 40, see |-> 120, credits |-> 30],
   [code |-> "MA101", name |-> "Maths", cie |-> 40, see |-> 80, credits |-> 0],
   [code |-> "MA101", name |-> "Maths", cie |-> 40, see |-> 80, credits |-> 5]}

PutBodies == {[cie |-> 10], [cie |-> 60], [see |-> 0 - 1], [credits |-> 0],
              [credits |-> 5]}

PatchBodies == {[see |-> 80], [see |-> 120], <<>>}

BulkBodies ==
  {<<>>, <<ValidSubject>>,
   <<[code |-> "MA101", name |-> "Maths", cie |-> 60, credits |-> 30]>>}

SubjectIds == 1..MaxSubjects

NextSubjects ==
  \/ \E u \in Users : Login(u)
  \/ \E body \in PostBodies : CreateSubject(1, body)
  \/ \E subs \in BulkBodies : BulkCreate(1, subs)
  \/ \E u \in Users, id \in SubjectIds, body \in PutBodies : UpdateSubject(u, id, body)
  \/ \E u \in Users, id \in SubjectIds, body \in PatchBodies : PatchSee(u, id, body)
  \/ \E u \in Users : Recalculate(u)
  \/ \E u \in Users, id \in SubjectIds : DeleteSubject(u, id)

SpecSubjects == InitServer /\ [][NextSubjects]_vars

(***************************************************************************)
(* Semester requests, and subject requests that name a semester           *)
(***************************************************************************)
SemesterBodies == {[name |-> "Sem 2", isActive |-> TRUE],
                   [name |-> "Sem 2", isActive |-> FALSE],
                   [name |-> "Sem 2"],
                   [isActive |-> TRUE]}

SemesterIds == 1..MaxSemesters

SemesterPostBodies ==
  {ValidSubject}
    \cup {[code |-> "MA101", name |-> "Maths", cie |-> 40, see |-> 80,
           credits |-> 30, semesterId |-> m] : m \in SemesterIds}

SemesterPutBodies == {[cie |-> 10]} \cup {[semesterId |-> m] : m \in SemesterIds}

NextSemesters ==
  \/ \E u \in Users : Login(u)
  \/ \E u \in Users, body \in SemesterBodies : CreateSemester(u, body)
  \/ \E u \in Users, id \in SemesterIds : ActivateSemester(u, id)
  \/ \E u \in Users, id \in SemesterIds : DeleteSemester(u, id)
  \/ \E u \in Users, body \in SemesterPostBodies : CreateSubject(u, body)
  \/ \E u \in Users : BulkCreate(u, <<ValidSubject>>)
  \/ \E u \in Users, id \in SubjectIds, body \in SemesterPutBodies :
       UpdateSubject(u, id, body)
  \/ \E u \in Users, id \in SubjectIds : DeleteSubject(u, id)
  \/ \E u \in Users, id \in SubjectIds : GetSubject(u, id)
  \/ \E u \in Users : GetCgpa(u)

SpecSemesters == InitServer /\ [][NextSemesters]_vars

(***************************************************************************)
(* The same subject list given to the client's calculateSGPA (default     *)
(* config) and to the server's aggregateSGPA and computeSubjectMetrics    *)
(***************************************************************************)
BothCie == {0, 30, 50}

BothSee == {0, 19, 80, 100}

BothCredits == {1, 4}

BothSubjectLists ==
  UNION {[1..n -> [cie : BothCie, see : BothSee, credits : BothCredits]] :
           n \in 0..MaxSubjects}

InitBoth ==
  /\ config = DEFAULT_GRADING_CONFIG
  /\ \E l \in BothSubjectLists :
       subjects = <<>> \o [i \in 1..Len(l) |->
                    [code |-> i, cie |-> l[i].cie, see |-> l[i].see,
                     credits |-> l[i].credits]]
  /\ targetSgpa = 0
  /\ pc = "idle"
  /\ ret = NoResult
  /\ workingSubjects = <<>>
  /\ steps = <<>>
  /\ iterations = 0
  /\ currentResult = NoResult
  /\ semesters = <<>>
  /\ heap = <<>>
  /\ db = NoRows
  /\ requests = NoRequests
  /\ slider = NoSlider

\* the client computes: calculateSGPA(subjects, DEFAULT_GRADING_CONFIG)
ClientCalculateSGPA ==
  /\ pc \in {"idle", "server"}
  /\ currentResult' = calculateSGPA(subjects, config)
  /\ pc' = IF pc = "idle" THEN "client" ELSE "both"
  /\ UNCHANGED <<config, subjects, targetSgpa, ret, workingSubjects, steps,
                 iterations, semesters, heap, appVars>>

\* the server computes: aggregateSGPA(subjects), and computeSubjectMetrics of
\* every subject
ServerAggregateSGPA ==
  /\ pc \in {"idle", "client"}
  /\ ret' = [op |-> "aggregateSGPA", val |-> aggregateSGPA(subjects),
             metrics |-> <<>> \o [i \in 1..Len(subjects) |->
                           computeSubjectMetrics(subjects[i].cie, subjects[i].see,
                                                 subjects[i].credits)]]
  /\ pc' = IF pc = "idle" THEN "server" ELSE "both"
  /\ UNCHANGED <<config, subjects, targetSgpa, workingSubjects, steps,
                 iterations, currentResult, semesters, heap, appVars>>

NextBoth ==
  \/ ClientCalculateSGPA
  \/ ServerAggregateSGPA

SpecBoth == InitBoth /\ [][NextBoth]_vars

(***************************************************************************)
(* The SubjectSlider component (src/unnamed/part_009) with its parent's   *)
(* handleSeeChange (App.tsx), which stores the reported value as the new  *)
(* see of the subject.  A raw position is a number of half marks          *)
(* (numerator over PosUnit), and so are see and the values reported; cie   *)
(* and the critical values are whole marks.  slider.reports holds the     *)
(* values the last event passed to onSeeChange, slider.raw the position   *)
(* it gave to handleSeeChange, slider.event the event.                    *)
(***************************************************************************)
PosUnit == 2

SNAP_THRESHOLD == 1

\* Math.round of a position
RoundPos(p) == ((p + 1) \div PosUnit) * PosUnit

\* slip: the last marker within the threshold taken
SnapTargetLast(newSee, criticalValues) ==
  LET hits == {i \in 1..Len(criticalValues) :
                 /\ criticalValues[i].reachable
                 /\ criticalValues[i].seeCrit * PosUnit - newSee <= SNAP_THRESHOLD * PosUnit
                 /\ newSee - criticalValues[i].seeCrit * PosUnit <= SNAP_THRESHOLD * PosUnit}
  IN  IF hits = {} THEN newSee
      ELSE criticalValues[CHOOSE i \in hits : \A j \in hits : j <= i].seeCrit * PosUnit

\* handleSeeChange, the loop: the first reachable critical value within the
\* threshold, else the position itself
SnapTarget(newSee, criticalValues) ==
  LET hits == {i \in 1..Len(criticalValues) :
                 /\ criticalValues[i].reachable
                 /\ criticalValues[i].seeCrit * PosUnit - newSee <= SNAP_THRESHOLD * PosUnit
                 /\ newSee - criticalValues[i].seeCrit * PosUnit <= SNAP_THRESHOLD * PosUnit}
  IN  IF hits = {} THEN newSee
      ELSE criticalValues[CHOOSE i \in hits : \A j \in hits : i <= j].seeCrit * PosUnit

\* handleSeeChange, clampedSee
ClampedSee(newSee, criticalValues, cfg) ==
  MaxOf(0, MinOf(cfg.maxSEE * PosUnit, RoundPos(SnapTarget(newSee, criticalValues))))

\* handleSeeChange(newSee) after the event named: onSeeChange(clampedSee), and
\* the parent stores it
handleSeeChange(s, event, newSee) ==
  TheValue({[s EXCEPT !.see = clampedSee, !.reports = <<clampedSee>>,
                      !.raw = newSee, !.event = event] :
              clampedSee \in {ClampedSee(newSee, s.criticalValues, config)}})

\* an event: its name and whether Shift is held
Event(key, shiftKey) == [key |-> key, shiftKey |-> shiftKey]

\* an event whose handler returns before handleSeeChange
NoReport(s, event) == [s EXCEPT !.reports = <<>>, !.event = event]

SliderMounts == {[config |-> DEFAULT_GRADING_CONFIG, cie |-> 40],
                 [config |-> DEFAULT_GRADING_CONFIG, cie |-> 45],
                 [config |-> DenseConfig, cie |-> 99]}

\* percent * config.maxSEE for pointer positions along the track
SliderPositions == {0, 4, 7, 9, 39, 42, 43, 101, 158, 199, 200}

SliderKeys == {"ArrowRight", "ArrowUp", "ArrowLeft", "ArrowDown", "Home", "End", "a"}

InitSlider ==
  /\ \E m \in SliderMounts, disabled \in BOOLEAN :
     \E see \in 0..m.config.maxSEE :
       /\ config = m.config
       /\ slider = [mounted |-> TRUE, cie |-> m.cie, see |-> see * PosUnit,
                    disabled |-> disabled, isDragging |-> FALSE, pending |-> 0 - 1,
                    criticalValues |-> calculateCriticalSEEValues(m.cie, m.config),
                    reports |-> <<>>, raw |-> 0, event |-> Event("mount", FALSE)]
  /\ subjects = <<>>
  /\ targetSgpa = 0
  /\ pc = "idle"
  /\ ret = NoResult
  /\ workingSubjects = <<>>
  /\ steps = <<>>
  /\ iterations = 0
  /\ currentResult = NoResult
  /\ semesters = <<>>
  /\ heap = <<>>
  /\ db = NoRows
  /\ requests = NoRequests

sliderOnly ==
  UNCHANGED <<config, subjects, targetSgpa, pc, ret, workingSubjects, steps,
              iterations, currentResult, semesters, heap, db, requests>>

\* handleMouseDown
MouseDown(pos) ==
  /\ slider.mounted
  /\ slider' = IF slider.disabled THEN NoReport(slider, Event("mousedown", FALSE))
               ELSE [handleSeeChange(slider, Event("mousedown", FALSE), pos)
                       EXCEPT !.isDragging = TRUE]
  /\ sliderOnly

\* handleMouseMove: listens while dragging, asks for an animation frame
MouseMove(pos) ==
  /\ slider.mounted
  /\ slider.isDragging
  /\ slider' = [NoReport(slider, Event("mousemove", FALSE)) EXCEPT !.pending = pos]
  /\ sliderOnly

\* the callback given to requestAnimationFrame
AnimationFrame ==
  /\ slider.mounted
  /\ slider.pending >= 0
  /\ slider' = [handleSeeChange(slider, Event("frame", FALSE), slider.pending)
                  EXCEPT !.pending = 0 - 1]
  /\ sliderOnly

\* handleMouseUp: listens while dragging
MouseUp ==
  /\ slider.mounted
  /\ slider.isDragging
  /\ slider' = [NoReport(slider, Event("mouseup", FALSE)) EXCEPT !.isDragging = FALSE]
  /\ sliderOnly

\* handleKeyDown, delta
KeyDelta(key, shiftKey) ==
  IF key \in {"ArrowRight", "ArrowUp"} THEN (IF shiftKey THEN 5 ELSE 1)
  ELSE IF key \in {"ArrowLeft", "ArrowDown"} THEN (IF shiftKey THEN 0 - 5 ELSE 0 - 1)
  ELSE 0

\* handleKeyDown
KeyDown(key, shiftKey) ==
  /\ slider.mounted
  /\ slider' =
       IF slider.disabled THEN NoReport(slider, Event(key, shiftKey))
       ELSE IF KeyDelta(key, shiftKey) # 0
       THEN handleSeeChange(slider, Event(key, shiftKey),
                            slider.see + KeyDelta(key, shiftKey) * PosUnit)
       ELSE IF key = "Home"
       THEN handleSeeChange(slider, Event(key, shiftKey), 0)
       ELSE IF key = "End"
       THEN handleSeeChange(slider, Event(key, shiftKey), config.maxSEE * PosUnit)
       ELSE NoReport(slider, Event(key, shiftKey))
  /\ sliderOnly

\* onClick of the marker of a reachable critical value
MarkerClick(i) ==
  /\ slider.mounted
  /\ i \in 1..Len(slider.criticalValues)
  /\ slider.criticalValues[i].reachable
  /\ slider' = handleSeeChange(slider, Event("click", FALSE),
                               slider.criticalValues[i].seeCrit * PosUnit)
  /\ sliderOnly

NextSlider ==
  \/ \E pos \in SliderPositions : MouseDown(pos)
  \/ \E pos \in SliderPositions : MouseMove(pos)
  \/ AnimationFrame
  \/ MouseUp
  \/ \E key \in SliderKeys, shiftKey \in BOOLEAN : KeyDown(key, shiftKey)
  \/ \E i \in 1..Len(config.buckets) : MarkerClick(i)

SpecSlider == InitSlider /\ [][NextSlider]_vars

(***************************************************************************)
(* Reference notions used by the properties                                *)
(***************************************************************************)
Abs(x) == IF x >= 0 THEN x ELSE -x

\* x (in units of 1/SgpaUnit) is num / den rounded to `digits` decimals
IsRounded(x, num, den, digits) ==
  LET unit == SgpaUnit \div Pow10(digits)
  IN  /\ x % unit = 0
      /\ 2 * Abs(x * den - num * SgpaUnit) <= unit * den

\* grade point of the bucket with the largest min <= total (0 if none);
\* depends on the set of buckets only
BucketGp(total, cfg) ==
  LET B  == {cfg.buckets[i] : i \in 1..Len(cfg.buckets)}
      ok == {b \in B : b.min * cfg.maxSEE <= total}
  IN  IF ok = {} THEN 0
      ELSE (CHOOSE b \in ok : \A c \in ok : c.min <= b.min).gp

Reverse(s) == [i \in 1..Len(s) |-> s[Len(s) + 1 - i]]

Rotate(s) == IF s = <<>> THEN s ELSE Tail(s) \o <<Head(s)>>

AllAtMax(subs, cfg) == [i \in 1..Len(subs) |-> [subs[i] EXCEPT !.see = cfg.maxSEE]]

ExampleSubjects ==
  << [code |-> 1, cie |-> 40, see |-> 60, credits |-> 4],
     [code |-> 2, cie |-> 45, see |-> 80, credits |-> 3] >>

Returned(op) == pc = "done" /\ ret.op = op

(***************************************************************************)
(* C1  calculateSGPA returns totalCredits = the sum of the credits,        *)
(* totalWeighted = the sum of gradePoint x credits, and sgpa =             *)
(* totalWeighted / totalCredits rounded to roundingDigits when             *)
(* totalCredits > 0; the empty list gives sgpa = 0 and maxSgpaIfAll100 = 0.*)
(* Default config, {40, 60, 4} and {45, 80, 3}: 7 credits, 59 weighted     *)
(* points, sgpa 8.43.                                                      *)
(***************************************************************************)
C1_SemesterAggregation ==
  Returned("calculateSGPA") =>
    LET r == ret.val
        n == Len(subjects)
    IN  /\ r.totalCredits = SumSeq([i \in 1..n |-> subjects[i].credits])
        /\ r.totalWeighted =
             SumSeq([i \in 1..n |->
                       BucketGp(subjects[i].cie * config.maxSEE
                                  + subjects[i].see * config.maxCIE, config)
                         * subjects[i].credits])
        /\ r.totalCredits > 0 =>
             IsRounded(r.sgpa, r.totalWeighted, r.totalCredits, config.roundingDigits)
        /\ r.totalCredits = 0 => r.sgpa = 0 /\ r.maxSgpaIfAll100 = 0
        /\ n = 0 => r.totalCredits = 0
        /\ (config = DEFAULT_GRADING_CONFIG /\ subjects = ExampleSubjects) =>
             r.totalCredits = 7 /\ r.totalWeighted = 59 /\ r.sgpa = 8430

C1_Witness ==
  /\ Returned("calculateSGPA")
  /\ config = DEFAULT_GRADING_CONFIG
  /\ subjects = ExampleSubjects
  /\ ret.val.sgpa = 8430

C1_WitnessEmpty ==
  /\ Returned("calculateSGPA")
  /\ subjects = <<>>
  /\ ret.val.sgpa = 0

(***************************************************************************)
(* C2  For a subject with 0 <= cie <= maxCIE and 0 <= see <= maxSEE:       *)
(* seeScaled = see x (maxCIE / maxSEE), total = cie + seeScaled and        *)
(* weighted = gp x credits with gp the grade point of total.  Default      *)
(* config, {40, 60, 4}: seeScaled 30, total 70, gp 8, weighted 32.         *)
(***************************************************************************)
C2_SubjectMetrics ==
  Returned("calculateSGPA") =>
    \A i \in 1..Len(subjects) :
      LET s == subjects[i]
          r == ret.val.subjects[i]
      IN  (0 <= s.cie /\ s.cie <= config.maxCIE /\ 0 <= s.see /\ s.see <= config.maxSEE) =>
            /\ r.seeScaled = s.see * config.maxCIE
            /\ r.total = s.cie * config.maxSEE + r.seeScaled
            /\ r.gp = BucketGp(r.total, config)
            /\ r.weighted = r.gp * s.credits
            /\ (config = DEFAULT_GRADING_CONFIG /\ s.cie = 40 /\ s.see = 60
                  /\ s.credits = 4) =>
                 /\ r.seeScaled = 30 * config.maxSEE
                 /\ r.total = 70 * config.maxSEE
                 /\ r.gp = 8
                 /\ r.weighted = 32

C2_Witness ==
  /\ Returned("calculateSGPA")
  /\ config = DEFAULT_GRADING_CONFIG
  /\ Len(subjects) = 1
  /\ subjects[1].cie = 40 /\ subjects[1].see = 60 /\ subjects[1].credits = 4
  /\ ret.val.subjects[1].total = 70 * config.maxSEE
  /\ ret.val.subjects[1].weighted = 32

(***************************************************************************)
(* C3  gpForTotal returns the grade point of the bucket with the largest   *)
(* min <= total, whatever the order in which the buckets are listed;       *)
(* a total equal to a bucket's min gets that bucket's grade point and a    *)
(* total below it, down to the next lower min, gets the next lower         *)
(* bucket's grade point (default config: 90 -> 10, 89.5 -> 9).             *)
(***************************************************************************)
C3_BucketLookup ==
  Returned("calculateSGPA") =>
    \A i \in 1..Len(subjects) :
      LET r == ret.val.subjects[i]
          B == {config.buckets[k] : k \in 1..Len(config.buckets)}
      IN  /\ r.gp = BucketGp(r.total, config)
          /\ gpForTotal(r.total, [config EXCEPT !.buckets = Reverse(config.buckets)])
               = r.gp
          /\ gpForTotal(r.total, [config EXCEPT !.buckets = Rotate(config.buckets)])
               = r.gp
          /\ \A b \in B :
               /\ r.total = b.min * config.maxSEE => r.gp = b.gp
               /\ \A lower \in B :
                    ( /\ lower.min < b.min
                      /\ \A c \in B : ~(lower.min < c.min /\ c.min < b.min)
                      /\ lower.min * config.maxSEE <= r.total
                      /\ r.total < b.min * config.maxSEE ) => r.gp = lower.gp
          /\ config \in {DEFAULT_GRADING_CONFIG, ShuffledConfig} =>
               /\ 2 * r.total = 2 * 90 * config.maxSEE => r.gp = 10
               /\ 2 * r.total = 179 * config.maxSEE => r.gp = 9

C3_Witness ==
  /\ Returned("calculateSGPA")
  /\ config = ShuffledConfig
  /\ Len(subjects) = 1
  /\ 2 * ret.val.subjects[1].total = 179 * config.maxSEE
  /\ ret.val.subjects[1].gp = 9

C3_WitnessExact ==
  /\ Returned("calculateSGPA")
  /\ config = DEFAULT_GRADING_CONFIG
  /\ Len(subjects) = 1
  /\ ret.val.subjects[1].total = 90 * config.maxSEE
  /\ ret.val.subjects[1].gp = 10

(***************************************************************************)
(* C4  Monotonicity.  Under a config whose grade points do not decrease    *)
(* with min, replacing one subject's see by a larger value <= maxSEE, the  *)
(* other subjects unchanged, never decreases that subject's gp, its        *)
(* weighted points, or the semester sgpa.                                  *)
(***************************************************************************)
MonotoneBuckets(cfg) ==
  \A i, j \in 1..Len(cfg.buckets) :
    cfg.buckets[i].min <= cfg.buckets[j].min => cfg.buckets[i].gp <= cfg.buckets[j].gp

C4_Monotonicity ==
  (Returned("calculateSGPA") /\ MonotoneBuckets(config)) =>
    \A i \in 1..Len(subjects) :
      \A m \in (subjects[i].see + 1)..config.maxSEE :
        \A raised \in {calculateSGPA(WithSee(subjects, i, m), config)} :
          /\ raised.subjects[i].gp >= ret.val.subjects[i].gp
          /\ raised.subjects[i].weighted >= ret.val.subjects[i].weighted
          /\ raised.sgpa >= ret.val.sgpa

C4_Witness ==
  /\ Returned("calculateSGPA")
  /\ MonotoneBuckets(config)
  /\ Len(subjects) = 2
  /\ \E m \in (subjects[2].see + 1)..config.maxSEE :
       LET raised == calculateSGPA(WithSee(subjects, 2, m), config)
       IN  /\ raised.subjects[2].gp > ret.val.subjects[2].gp
           /\ raised.sgpa > ret.val.sgpa

(***************************************************************************)
(* C5  findMinimalSEEForTarget, for an existing code, integer see values,  *)
(* the default config and a target above the current sgpa, returns the     *)
(* smallest integer m in [currentSee, maxSEE] whose semester sgpa (only    *)
(* the target subject's see replaced by m) is >= target, with possible =   *)
(* TRUE and achievedSgpa that sgpa; when there is none: possible = FALSE,  *)
(* minSeeToReachTarget = -1 and achievedSgpa = the current sgpa.           *)
(***************************************************************************)
SgpaWithSee(index, m) == calculateSGPA(WithSee(subjects, index, m), config).sgpa

C5_MinimalSEE ==
  ( /\ Returned("findMinimalSEEForTarget")
    /\ ~ret.val.threw
    /\ config = DEFAULT_GRADING_CONFIG
    /\ targetSgpa > calculateSGPA(subjects, config).sgpa ) =>
    LET plan  == ret.val
        index == FindIndex(subjects, plan.code)
    IN  \A sats \in {{m \in subjects[index].see..config.maxSEE :
                         SgpaWithSee(index, m) >= targetSgpa}} :
          IF sats # {}
          THEN /\ plan.possible
               /\ plan.minSeeToReachTarget \in sats
               /\ \A m \in sats : plan.minSeeToReachTarget <= m
               /\ plan.achievedSgpa = SgpaWithSee(index, plan.minSeeToReachTarget)
          ELSE /\ ~plan.possible
               /\ plan.minSeeToReachTarget = -1
               /\ plan.achievedSgpa = calculateSGPA(subjects, config).sgpa

C5_Witness ==
  /\ Returned("findMinimalSEEForTarget")
  /\ ~ret.val.threw
  /\ config = DEFAULT_GRADING_CONFIG
  /\ targetSgpa > calculateSGPA(subjects, config).sgpa
  /\ ret.val.possible
  /\ ret.val.minSeeToReachTarget > ret.val.currentSee + 1
  /\ ret.val.minSeeToReachTarget < config.maxSEE

C5_WitnessImpossible ==
  /\ Returned("findMinimalSEEForTarget")
  /\ ~ret.val.threw
  /\ config = DEFAULT_GRADING_CONFIG
  /\ ~ret.val.possible
  /\ ret.val.minSeeToReachTarget = -1

(***************************************************************************)
(* C6  Idempotence on already-met targets: when the current sgpa is        *)
(* already >= targetSgpa, findMinimalSEEForTarget returns possible = TRUE, *)
(* minSeeToReachTarget = the subject's current see and achievedSgpa = the  *)
(* current sgpa, for every subject, without running the binary search.     *)
(***************************************************************************)
C6_AlreadyMet ==
  ( /\ Returned("findMinimalSEEForTarget")
    /\ ~ret.val.threw
    /\ calculateSGPA(subjects, config).sgpa >= targetSgpa ) =>
    LET plan == ret.val
    IN  /\ plan.possible
        /\ plan.minSeeToReachTarget = subjects[FindIndex(subjects, plan.code)].see
        /\ plan.currentSee = plan.minSeeToReachTarget
        /\ plan.achievedSgpa = calculateSGPA(subjects, config).sgpa
        /\ ~plan.searched

C6_Witness ==
  /\ Returned("findMinimalSEEForTarget")
  /\ ~ret.val.threw
  /\ Len(subjects) = 2
  /\ ret.val.code = 2
  /\ calculateSGPA(subjects, config).sgpa >= targetSgpa
  /\ ret.val.minSeeToReachTarget = subjects[2].see

(***************************************************************************)
(* C7  greedyGlobalPlan repeats its step until the target is reached or    *)
(* all SEE = maxSEE: on return targetReached = TRUE or every subject of    *)
(* the working copy has see = maxSEE; so targetReached = FALSE is returned *)
(* only when targetSgpa > bestAttainableSgpa.                              *)
(***************************************************************************)
C7_UntilTargetOrAllMax ==
  Returned("greedyGlobalPlan") =>
    /\ \/ ret.val.targetReached
       \/ \A i \in 1..Len(workingSubjects) : workingSubjects[i].see = config.maxSEE
    /\ ~ret.val.targetReached => targetSgpa > ret.val.bestAttainableSgpa

(***************************************************************************)
(* C8  greedyGlobalPlan terminates for every subject list, target and      *)
(* config with a floor bucket: the loop runs at most maxIterations (1000)  *)
(* times, a run that exhausts the cap returns targetReached = FALSE with   *)
(* the steps made so far, and with the default config the number of        *)
(* returned steps is at most (number of subjects) x (number of buckets).   *)
(***************************************************************************)
C8_ReturnBounds ==
  /\ iterations <= maxIterations
  /\ Len(steps) <= iterations
  /\ Returned("greedyGlobalPlan") =>
       /\ ret.val.steps = steps
       /\ iterations >= maxIterations => ~ret.val.targetReached
       /\ config = DEFAULT_GRADING_CONFIG =>
            Len(ret.val.steps) <= Len(subjects) * Len(config.buckets)

\* every pass through the loop either leaves it or counts one iteration,
\* records one step and moves exactly one subject to a strictly larger see
C8_LoopProgress ==
  pc = "loop" =>
    \/ pc' = "exit" /\ iterations' \in {iterations, iterations + 1}
                    /\ Len(steps') \in {Len(steps), Len(steps) + 1}
    \/ /\ pc' = "loop"
       /\ iterations' = iterations + 1
       /\ Len(steps') = Len(steps) + 1
       /\ \E i \in 1..Len(workingSubjects) :
            /\ workingSubjects'[i].see > workingSubjects[i].see
            /\ workingSubjects'[i].see <= config.maxSEE
            /\ \A j \in 1..Len(workingSubjects) :
                 j # i => workingSubjects'[j] = workingSubjects[j]

CeilingSgpa(subs, cfg) == calculateSGPA(AllAtMax(subs, cfg), cfg).sgpa

C9_Ceiling ==
  /\ Returned("calculateSGPA") =>
       ret.val.maxSgpaIfAll100 = CeilingSgpa(subjects, config)
  /\ Returned("greedyGlobalPlan") =>
       /\ ret.val.bestAttainableSgpa = CeilingSgpa(subjects, config)
       /\ ret.val.bestAttainableSgpa = calculateSGPA(subjects, config).maxSgpaIfAll100
       /\ ret.val.bestAttainableSgpa = CeilingSgpa(workingSubjects, config)

C9_Witness ==
  /\ Returned("greedyGlobalPlan")
  /\ Len(ret.val.steps) > 0
  /\ ~ret.val.targetReached
  /\ ret.val.bestAttainableSgpa > ret.val.finalSgpa
  /\ ret.val.bestAttainableSgpa = CeilingSgpa(subjects, config)

C9_WitnessCalculate ==
  /\ Returned("calculateSGPA")
  /\ Len(subjects) = 2
  /\ ret.val.maxSgpaIfAll100 > ret.val.sgpa

(***************************************************************************)
(* C10  aggregateCGPA returns one breakdown entry per input semester, in   *)
(* input order, with that semester's aggregateSGPA sgpa and totalCredits;  *)
(* totalCredits = the sum of the semesters' credits; cgpa =                *)
(* sum(sgpa_i x credits_i) / sum(credits_i) rounded to 2 digits; and       *)
(* cgpa = 0 when the total credits are 0.                                  *)
(***************************************************************************)
CreditsOf(sem) == SumSeq([k \in 1..Len(sem.subjects) |-> sem.subjects[k].credits])

C10_CumulativeAggregation ==
  Returned("aggregateCGPA") =>
    LET r == ret.val
        n == Len(semesters)
        b == r.semesterBreakdown
    IN  /\ Len(b) = n
        /\ \A i \in 1..n :
             /\ b[i].semesterId = semesters[i].id
             /\ b[i].sgpa = aggregateSGPA(semesters[i].subjects).sgpa
             /\ b[i].credits = aggregateSGPA(semesters[i].subjects).totalCredits
             /\ b[i].credits = CreditsOf(semesters[i])
        /\ r.totalCredits = SumSeq([i \in 1..n |-> CreditsOf(semesters[i])])
        /\ r.totalCredits > 0 =>
             IsRounded(r.cgpa, SumSeq([i \in 1..n |-> b[i].sgpa * b[i].credits]),
                       r.totalCredits * SgpaUnit, 2)
        /\ r.totalCredits = 0 => r.cgpa = 0

C10_Witness ==
  /\ Returned("aggregateCGPA")
  /\ Len(semesters) = 2
  /\ Len(semesters[1].subjects) = 2
  /\ Len(semesters[2].subjects) = 1
  /\ ret.val.semesterBreakdown[1].sgpa # ret.val.semesterBreakdown[2].sgpa
  /\ ret.val.semesterBreakdown[1].credits # ret.val.semesterBreakdown[2].credits
  /\ ret.val.cgpa % SgpaUnit # 0

C10_WitnessNoCredits ==
  /\ Returned("aggregateCGPA")
  /\ Len(semesters) = 2
  /\ ret.val.totalCredits = 0
  /\ ret.val.cgpa = 0

(***************************************************************************)
(* C11  No engine operation mutates its inputs: after calculateSGPA,       *)
(* findMinimalSEEForTarget, greedyGlobalPlan, calculateCriticalSEEValues,  *)
(* calculateMarginalGains or generateSGPACurve returns or throws, the      *)
(* caller's subject objects, its subject array and its bucket array (in    *)
(* the listed order) are exactly as before the call; the marks tried are   *)
(* written to copies only.                                                 *)
(***************************************************************************)
C11_InputsUnchanged ==
  pc = "done" =>
    /\ heap = CallerHeap(subjects, config)
    /\ heap[BucketsAddr] = config.buckets
    /\ DerefSubjects(heap, SubjectsAddr) = subjects

\* a plan whose loop wrote a new see into the working copy
C11_Witness ==
  /\ Returned("greedyGlobalPlan")
  /\ ret.allocated > 0
  /\ config = DenseConfig
  /\ Len(subjects) = 2
  /\ calculateSGPA(subjects, config).sgpa < targetSgpa
  /\ bestSubjectIndex(subjects, calculateSGPA(subjects, config).sgpa, config) # 0
  /\ DerefSubjects(heap, SubjectsAddr) = subjects

(***************************************************************************)
(* C12  findMinimalSEEForTarget fails with a not-found error exactly when  *)
(* the requested code matches no subject of the list, the empty list       *)
(* included; the failure comes before any computation (nothing has been    *)
(* allocated) and leaves the list unchanged.  A call whose code matches a  *)
(* subject does not throw and computes.                                    *)
(***************************************************************************)
C12_NotFoundOnly ==
  Returned("findMinimalSEEForTarget") =>
    /\ ret.threw <=> ~ \E i \in 1..Len(subjects) : subjects[i].code = ret.arg
    /\ ret.threw => /\ ret.allocated = 0
                    /\ DerefSubjects(heap, SubjectsAddr) = subjects
    /\ ~ ret.threw => ret.allocated > 0

\* a code that is not in a list of two subjects
C12_Witness ==
  /\ Returned("findMinimalSEEForTarget")
  /\ Len(subjects) = 2
  /\ ret.arg = 3
  /\ ret.threw

\* the empty list
C12_WitnessEmpty ==
  /\ Returned("findMinimalSEEForTarget")
  /\ subjects = <<>>
  /\ ret.threw

\* a code of the list: the plan is computed
C12_WitnessFound ==
  /\ Returned("findMinimalSEEForTarget")
  /\ Len(subjects) = 2
  /\ ret.arg = 2
  /\ ~ ret.threw

(***************************************************************************)
(* C13  The engine fails closed on invalid subjects: when a subject of the *)
(* list has negative marks, cie > maxCIE, see > maxSEE, credits <= 0 or a  *)
(* missing code, calculateSGPA and the planner built on it end with a      *)
(* validation error instead of returning an sgpa.                          *)
(***************************************************************************)
C13_FailsClosed ==
  (/\ pc = "done"
   /\ ret.op \in {"calculateSGPA", "findMinimalSEEForTarget"}
   /\ \E i \in 1..Len(subjects) : ~ validateSubject(subjects[i], config).valid)
  => ret.error = "validation"

(***************************************************************************)
(* C14  When no bucket of the config has min <= the total (no floor        *)
(* bucket), computing the grade point ends with a configuration error; no  *)
(* grade point is returned for such a total.                               *)
(***************************************************************************)
C14_NoFloorFails ==
  (/\ Returned("gpForTotal")
   /\ ~ \E k \in 1..Len(config.buckets) :
          config.buckets[k].min * config.maxSEE <= ret.val.total)
  => ret.error = "configuration"

(***************************************************************************)
(* C15  calculateCriticalSEEValues(cie, config) returns exactly one entry  *)
(* per bucket, ordered by non-decreasing seeCrit.  For each bucket the     *)
(* unclamped value is u = (bucket.min - cie) x (maxSEE / maxCIE), seeCrit  *)
(* is u clamped into [0, maxSEE], gp = bucket.gp, cutoffTotal = bucket.min *)
(* and reachable = (0 <= u <= maxSEE).  For every reachable entry seeCrit  *)
(* is the minimal see at which the subject's total reaches cutoffTotal.    *)
(* u is compared through u x maxCIE = (bucket.min - cie) x maxSEE.         *)
(***************************************************************************)
C15_CriticalValues ==
  Returned("calculateCriticalSEEValues") =>
    \A criticals \in {ret.val} :
      /\ Len(criticals) = Len(config.buckets)
      /\ \A k \in 1..Len(config.buckets) :
           Cardinality({j \in 1..Len(criticals) :
                          /\ criticals[j].cutoffTotal = config.buckets[k].min
                          /\ criticals[j].gp = config.buckets[k].gp})
             = Cardinality({m \in 1..Len(config.buckets) :
                              config.buckets[m] = config.buckets[k]})
      /\ \A j \in 1..(Len(criticals) - 1) :
           criticals[j].seeCrit <= criticals[j + 1].seeCrit
      /\ \A j \in 1..Len(criticals) :
           \A u \in {(criticals[j].cutoffTotal - ret.cie) * config.maxSEE} :
             /\ criticals[j].seeCrit * config.maxCIE
                  = MaxOf(0, MinOf(config.maxSEE * config.maxCIE, u))
             /\ criticals[j].reachable
                  <=> (0 <= u /\ u <= config.maxSEE * config.maxCIE)
             /\ criticals[j].reachable =>
                  /\ calculateTotal(ret.cie, criticals[j].seeCrit, config)
                       >= criticals[j].cutoffTotal * config.maxSEE
                  /\ \A see \in 0..(criticals[j].seeCrit - 1) :
                       calculateTotal(ret.cie, see, config)
                         < criticals[j].cutoffTotal * config.maxSEE

\* cutoffs inside the range, below it and above it, in an unsorted table
C15_Witness ==
  /\ Returned("calculateCriticalSEEValues")
  /\ config = ShuffledConfig
  /\ \E j \in 1..Len(ret.val) :
       /\ ret.val[j].reachable
       /\ 0 < ret.val[j].seeCrit
       /\ ret.val[j].seeCrit < config.maxSEE
  /\ \E j \in 1..Len(ret.val) :
       ~ ret.val[j].reachable /\ ret.val[j].seeCrit = 0
  /\ \E j \in 1..Len(ret.val) :
       ~ ret.val[j].reachable /\ ret.val[j].seeCrit = config.maxSEE

(***************************************************************************)
(* C16  The steps of greedyGlobalPlan can be replayed on the input: for    *)
(* each step, fromSee is the see of the step's subject after the earlier   *)
(* steps, fromSee < toSee <= maxSEE, increaseSeeBy = toSee - fromSee, and  *)
(* sgpaAfter is calculateSGPA of the input with the steps up to this one   *)
(* applied.  finalSgpa is the sgpaAfter of the last step, or the sgpa of   *)
(* the input when there is no step.                                        *)
(***************************************************************************)
\* the input after the first k steps: each step sets the see of its subject
RECURSIVE ApplySteps(_, _, _)
ApplySteps(subs, plan, k) ==
  IF k = 0 THEN subs
  ELSE \* the list after k - 1 steps, with step k applied
       LET before == ApplySteps(subs, plan, k - 1)
       IN  <<>> \o [i \in 1..Len(before) |->
                      IF before[i].code = plan[k].code
                      THEN [before[i] EXCEPT !.see = plan[k].toSee]
                      ELSE before[i]]

C16_StepsReplay ==
  Returned("greedyGlobalPlan") =>
    \A plan \in {ret.val.steps} :
      /\ \A k \in 1..Len(plan) :
           \A before \in {ApplySteps(subjects, plan, k - 1)} :
             /\ \E i \in 1..Len(before) :
                  /\ before[i].code = plan[k].code
                  /\ before[i].see = plan[k].fromSee
             /\ plan[k].fromSee < plan[k].toSee
             /\ plan[k].toSee <= config.maxSEE
             /\ plan[k].increaseSeeBy = plan[k].toSee - plan[k].fromSee
             /\ plan[k].sgpaAfter
                  = calculateSGPA(ApplySteps(subjects, plan, k), config).sgpa
      /\ ret.val.finalSgpa = IF plan = <<>>
                             THEN calculateSGPA(subjects, config).sgpa
                             ELSE plan[Len(plan)].sgpaAfter

\* a plan of several steps that raises two subjects, one of them twice
C16_Witness ==
  /\ Returned("greedyGlobalPlan")
  /\ \E j, k, m \in 1..Len(ret.val.steps) :
       /\ j < k
       /\ ret.val.steps[j].code = ret.val.steps[k].code
       /\ ret.val.steps[m].code # ret.val.steps[j].code

\* a plan without steps
C16_WitnessNoStep ==
  /\ Returned("greedyGlobalPlan")
  /\ ret.val.steps = <<>>
  /\ subjects # <<>>

(***************************************************************************)
(* C17  Every GPA-like value is the exact ratio rounded to the configured  *)
(* number of digits with round-half-away-from-zero: a value exactly        *)
(* halfway between two representable values goes to the one farther from   *)
(* zero, for positive and for negative values.                             *)
(***************************************************************************)
\* num / den rounded half away from zero, in units of 1 / SgpaUnit
HalfAwayFromZero(num, den, digits) ==
  LET magnitude == ((2 * Abs(num) * Pow10(digits) + den) \div (2 * den))
                     * (SgpaUnit \div Pow10(digits))
  IN  IF num < 0 THEN 0 - magnitude ELSE magnitude

C17_HalfAwayFromZero ==
  (pc = "done" /\ ret.op \in {"roundTo", "round2"}) =>
    ret.val = HalfAwayFromZero(ret.num, ret.den, ret.digits)

(***************************************************************************)
(* C18  When greedyGlobalPlan stops because no +1 probe yields a positive  *)
(* delta (target not reached, some subject below maxSEE), the plan is at   *)
(* a point where no increase of any single subject's see, by any amount up *)
(* to maxSEE, raises the sgpa above finalSgpa.                             *)
(***************************************************************************)
C18_NoSingleIncreaseHelps ==
  (/\ Returned("greedyGlobalPlan")
   /\ ~ ret.val.targetReached
   /\ iterations < maxIterations
   /\ \E i \in 1..Len(workingSubjects) : workingSubjects[i].see < config.maxSEE)
  => \A i \in 1..Len(workingSubjects) :
       \A see \in workingSubjects[i].see..config.maxSEE :
         calculateSGPA(WithSee(workingSubjects, i, see), config).sgpa
           <= ret.val.finalSgpa

(***************************************************************************)
(* C19  greedyGlobalPlan stops at the first step that meets the target:    *)
(* if the sgpa of the input is already >= targetSgpa the steps are empty;  *)
(* otherwise every step except the last has sgpaAfter < targetSgpa;        *)
(* targetReached holds exactly when finalSgpa >= targetSgpa, so in a plan  *)
(* with steps that reaches the target only the last step has sgpaAfter >=  *)
(* targetSgpa.                                                             *)
(***************************************************************************)
C19_StopsAtTarget ==
  Returned("greedyGlobalPlan") =>
    \A plan \in {ret.val.steps} :
      /\ calculateSGPA(subjects, config).sgpa >= targetSgpa => plan = <<>>
      /\ \A k \in 1..(Len(plan) - 1) : plan[k].sgpaAfter < targetSgpa
      /\ ret.val.targetReached <=> ret.val.finalSgpa >= targetSgpa
      /\ (plan # <<>> /\ ret.val.targetReached) =>
           plan[Len(plan)].sgpaAfter >= targetSgpa

\* a plan of several steps whose last step reaches the target
C19_Witness ==
  /\ Returned("greedyGlobalPlan")
  /\ Len(ret.val.steps) >= 2
  /\ ret.val.targetReached
  /\ ret.val.steps[Len(ret.val.steps)].sgpaAfter >= targetSgpa

\* the input already meets the target
C19_WitnessAlreadyMet ==
  /\ Returned("greedyGlobalPlan")
  /\ subjects # <<>>
  /\ calculateSGPA(subjects, config).sgpa >= targetSgpa
  /\ ret.val.steps = <<>>
  /\ ret.val.targetReached

\* a plan with steps that ends below the target
C19_WitnessNotReached ==
  /\ Returned("greedyGlobalPlan")
  /\ ret.val.steps # <<>>
  /\ ~ ret.val.targetReached

(***************************************************************************)
(* C20  In each iteration of greedyGlobalPlan the subject chosen for the   *)
(* step has see below maxSEE, and its +1 probe (see + 1 clamped to maxSEE, *)
(* the other subjects fixed) gives the largest sgpa delta, which is        *)
(* strictly positive; among subjects that tie for the largest delta the    *)
(* earliest in the list is chosen; a subject at maxSEE is never chosen.    *)
(***************************************************************************)
\* the sgpa delta of the +1 probe of subject j of the list subs
ProbeDelta(subs, j, cfg) ==
  calculateSGPA(WithSee(subs, j, MinOf(subs[j].see + 1, cfg.maxSEE)), cfg).sgpa
    - calculateSGPA(subs, cfg).sgpa

C20_StepChoice ==
  (pc = "loop" /\ Len(steps') = Len(steps) + 1) =>
    \E i \in 1..Len(workingSubjects) :
      /\ workingSubjects[i].code = steps'[Len(steps')].code
      /\ workingSubjects'[i].see = steps'[Len(steps')].toSee
      /\ \A j \in (1..Len(workingSubjects)) \ {i} :
           workingSubjects'[j] = workingSubjects[j]
      /\ workingSubjects[i].see < config.maxSEE
      /\ \A delta \in {ProbeDelta(workingSubjects, i, config)} :
           /\ delta > 0
           /\ \A j \in 1..Len(workingSubjects) :
                \A other \in {ProbeDelta(workingSubjects, j, config)} :
                  /\ other <= delta
                  /\ j < i => other < delta

C20_GreedyChoice == [][C20_StepChoice]_vars

\* two subjects tie for the largest delta and the first one was stepped
C20_Witness ==
  /\ pc \in {"loop", "exit", "done"}
  /\ Len(steps) = 1
  /\ Len(subjects) = 2
  /\ ProbeDelta(subjects, 1, config) = ProbeDelta(subjects, 2, config)
  /\ ProbeDelta(subjects, 1, config) > 0
  /\ steps[1].code = subjects[1].code

\* the first subject is at maxSEE and the second one was stepped
C20_WitnessAtMax ==
  /\ pc \in {"loop", "exit", "done"}
  /\ Len(steps) >= 1
  /\ Len(subjects) = 2
  /\ subjects[1].see = config.maxSEE
  /\ steps[1].code = subjects[2].code

(***************************************************************************)
(* C21  In every greedyGlobalPlan step the chosen subject is moved to its  *)
(* smallest reachable critical see strictly greater than its current see   *)
(* (or to see + 1 when there is none), clamped to maxSEE, and the sgpa     *)
(* after this jump is at least the sgpa that a +1 increment of the same    *)
(* subject would have given.  A see is a numerator over maxCIE here.       *)
(***************************************************************************)
\* the reachable critical values above see of a subject with this cie:
\* u with u x maxCIE = (min - cie) x maxSEE for a bucket, 0 <= u <= maxSEE
CriticalsAbove(cie, see, cfg) ==
  {(cfg.buckets[k].min - cie) * cfg.maxSEE : k \in 1..Len(cfg.buckets)}
    \cap ((see + 1)..Marks(cfg.maxSEE, cfg))

SetMin(S) == CHOOSE x \in S : \A y \in S : x <= y

C21_JumpStep ==
  (pc = "loop" /\ Len(steps') = Len(steps) + 1) =>
    \E i \in 1..Len(workingSubjects) :
      /\ workingSubjects[i].code = steps'[Len(steps')].code
      /\ \A above \in {CriticalsAbove(workingSubjects[i].cie,
                                     workingSubjects[i].see, config)} :
           steps'[Len(steps')].toSee
             = MinOf(Marks(config.maxSEE, config),
                     IF above # {} THEN SetMin(above)
                     ELSE workingSubjects[i].see + Marks(1, config))
      /\ steps'[Len(steps')].sgpaAfter
           >= calculateSGPAExact(ProbeSubjectsExact(workingSubjects, i, config),
                                 config).sgpa

C21_JumpAtLeastPlusOne == [][C21_JumpStep]_vars

(***************************************************************************)
(* C22  Rounding never compounds: no already-rounded value feeds a later   *)
(* result, so the cgpa returned by aggregateCGPA is the rounding of (sum   *)
(* of gp x credits over all subjects of all semesters) / (sum of all       *)
(* credits), as if the sgpa of each semester had not been rounded.         *)
(***************************************************************************)
\* gp x credits summed over the subjects of one semester
WeightedOf(sem) ==
  SumSeq([k \in 1..Len(sem.subjects) |->
            computeSubjectMetrics(sem.subjects[k].cie, sem.subjects[k].see,
                                  sem.subjects[k].credits).weighted])

C22_NoCompoundRounding ==
  (Returned("aggregateCGPA") /\ ret.val.totalCredits > 0) =>
    IsRounded(ret.val.cgpa,
              SumSeq([i \in 1..Len(semesters) |-> WeightedOf(semesters[i])]),
              SumSeq([i \in 1..Len(semesters) |-> CreditsOf(semesters[i])]), 2)

(***************************************************************************)
(* C23  Under any interleaving of PUT /api/subjects/:id (changing cie or  *)
(* credits), PATCH /api/subjects/:id/see and POST /api/subjects/          *)
(* recalculate on the same subject, once all of them have completed the   *)
(* row's cached total, gp and weighted equal computeSubjectMetrics of the *)
(* row's stored cie, see and credits.                                      *)
(***************************************************************************)
CacheConsistent(s) ==
  LET metrics == computeSubjectMetrics(s.cie, s.see, s.credits)
  IN  /\ s.total = metrics.total
      /\ s.gp = metrics.gp
      /\ s.weighted = metrics.weighted

C23_CacheConsistentAfterRace ==
  (requests.begun > 0 /\ requests.inflight = <<>>) =>
    \A i \in 1..Len(db.subject) : CacheConsistent(db.subject[i])

(***************************************************************************)
(* C24  After any sequence of subject requests served one after the       *)
(* other (create, bulk create, update, SEE-only update, recalculate,      *)
(* delete), every stored subject's cached total, gp and weighted equal    *)
(* computeSubjectMetrics of its stored cie, see and credits, and a        *)
(* request answered with 400 or 404 leaves every stored subject as it     *)
(* was.                                                                    *)
(***************************************************************************)
C24_RejectedChangesNothing ==
  ("status" \in DOMAIN ret' /\ ret'.status \in {400, 404}) =>
    db'.subject = db.subject

C24_CacheConsistent ==
  /\ [](\A i \in 1..Len(db.subject) : CacheConsistent(db.subject[i]))
  /\ [][C24_RejectedChangesNothing]_vars

\* a SEE-only update of a row whose cie an update had changed
C24_Witness ==
  /\ ret.op = "PATCH" /\ ret.status = 200
  /\ \E i \in 1..Len(db.subject) :
       /\ db.subject[i].cie = 10 /\ db.subject[i].see = 80
       /\ db.subject[i].gp = 6 /\ db.subject[i].weighted = 18

(***************************************************************************)
(* C25  After any sequence of subject-mutation requests (POST             *)
(* /api/subjects, POST /api/subjects/bulk, PUT /api/subjects/:id, PATCH   *)
(* /api/subjects/:id/see), every stored subject has 0 <= cie <= 50,       *)
(* 0 <= see <= 100 and credits a positive integer: a request with a value *)
(* outside these ranges is rejected and stores nothing.                   *)
(***************************************************************************)
C25_StoredInRange ==
  \A i \in 1..Len(db.subject) :
    /\ 0 <= db.subject[i].cie /\ db.subject[i].cie <= 50
    /\ 0 <= db.subject[i].see /\ db.subject[i].see <= 100
    /\ db.subject[i].credits > 0

(***************************************************************************)
(* C26  Each user has at most one active semester in every reachable      *)
(* state: after semester creations with isActive true, false or omitted,  *)
(* activations, deletions, the default semester of the first sign-in and  *)
(* subject creations that create 'Current Semester'; activating a         *)
(* semester deactivates all the other semesters of the user.              *)
(***************************************************************************)
C26_OneActiveSemester ==
  \A u \in Users : Cardinality(ActiveSemesters(db, u)) <= 1

(***************************************************************************)
(* C27  Per-user isolation: every subject's semesterId refers to a        *)
(* semester owned by the subject's own user, so the CGPA of a user        *)
(* aggregates only that user's subjects; a request of one user never      *)
(* reads, changes or deletes a subject or semester of another user.       *)
(***************************************************************************)
C27_Isolation ==
  /\ \A i \in 1..Len(db.subject) :
       \E j \in 1..Len(db.semester) :
         /\ db.semester[j].id = db.subject[i].semesterId
         /\ db.semester[j].userId = db.subject[i].userId
  /\ (ret.op = "GET cgpa" /\ ret.status = 200) =>
       \A i \in 1..Len(ret.semesters) :
         \A k \in 1..Len(ret.semesters[i].subjects) :
           ret.semesters[i].subjects[k].userId = ret.user

(***************************************************************************)
(* C28  For every list of subjects with 0 <= cie <= 50, 0 <= see <= 100   *)
(* and positive integer credits, the server's aggregateSGPA and the       *)
(* client's calculateSGPA with DEFAULT_GRADING_CONFIG return the same     *)
(* sgpa, totalCredits, totalWeighted and maxSgpaIfAll100, and             *)
(* computeSubjectMetrics returns the same total, gp and weighted as the   *)
(* client's result for each subject.  (A server total is a numerator over *)
(* SeeDivisor, a client total one over maxSEE.)                           *)
(***************************************************************************)
C28_ServerMatchesClient ==
  pc = "both" =>
    /\ ret.val.sgpa = currentResult.sgpa
    /\ ret.val.totalCredits = currentResult.totalCredits
    /\ ret.val.totalWeighted = currentResult.totalWeighted * SgpaUnit
    /\ ret.val.maxSgpaIfAll100 = currentResult.maxSgpaIfAll100
    /\ Len(ret.metrics) = Len(currentResult.subjects)
    /\ \A i \in 1..Len(ret.metrics) :
         /\ ret.metrics[i].total * config.maxSEE
              = currentResult.subjects[i].total * SeeDivisor
         /\ ret.metrics[i].gp = currentResult.subjects[i].gp
         /\ ret.metrics[i].weighted = currentResult.subjects[i].weighted

\* two subjects, one exactly on the cutoff 90 and one half a mark under 40
C28_Witness ==
  /\ pc = "both"
  /\ Len(subjects) = 2
  /\ ret.metrics[1].total = 90 * SeeDivisor /\ ret.metrics[1].gp = 10
  /\ ret.metrics[2].total = 79 /\ ret.metrics[2].gp = 4
  /\ subjects[1].credits = 1 /\ subjects[2].credits = 4
  /\ ret.val.sgpa = 5200

(***************************************************************************)
(* C29  Keyboard progress of SubjectSlider: when the slider is enabled    *)
(* and see < maxSEE, ArrowRight or ArrowUp without Shift reports a        *)
(* strictly greater see, and when see > 0, ArrowLeft or ArrowDown reports *)
(* a strictly smaller one; hence repeated ArrowRight eventually brings    *)
(* see to maxSEE from any start, a start exactly on a reachable critical  *)
(* SEE marker included.                                                    *)
(***************************************************************************)
C29_ArrowStep ==
  /\ ( /\ ~slider.disabled
       /\ slider.see < config.maxSEE * PosUnit
       /\ slider'.event \in {Event("ArrowRight", FALSE), Event("ArrowUp", FALSE)} )
       => ( slider'.reports # <<>> /\ slider'.reports[1] > slider.see )
  /\ ( /\ ~slider.disabled
       /\ slider.see > 0
       /\ slider'.event \in {Event("ArrowLeft", FALSE), Event("ArrowDown", FALSE)} )
       => ( slider'.reports # <<>> /\ slider'.reports[1] < slider.see )

C29_ArrowProgress == [][C29_ArrowStep]_vars

(***************************************************************************)
(* C30  After any sequence of slider events (mouse down, drag, key        *)
(* presses including Home, End and Shift+arrows, clicks on critical       *)
(* markers) every value passed to onSeeChange is an integer in            *)
(* [0, maxSEE]; a disabled slider reports no change on mouse down or key  *)
(* press; and a raw position within 1 mark of a reachable critical SEE    *)
(* value is reported as that critical value (the lowest such one).        *)
(***************************************************************************)
\* the reachable critical values within 1 mark of a position
CriticalsNear(pos) ==
  {c.seeCrit : c \in {slider.criticalValues[i] : i \in
                        {j \in 1..Len(slider.criticalValues) :
                           /\ slider.criticalValues[j].reachable
                           /\ slider.criticalValues[j].seeCrit * PosUnit <= pos + PosUnit
                           /\ slider.criticalValues[j].seeCrit * PosUnit >= pos - PosUnit}}}

C30_Reported ==
  slider.mounted =>
    /\ \A k \in 1..Len(slider.reports) :
         /\ slider.reports[k] % PosUnit = 0
         /\ slider.reports[k] >= 0
         /\ slider.reports[k] <= config.maxSEE * PosUnit
    /\ (slider.reports # <<>> /\ CriticalsNear(slider.raw) # {}) =>
         slider.reports[1] = SetMin(CriticalsNear(slider.raw)) * PosUnit

C30_DisabledStep ==
  ( /\ slider.disabled
    /\ slider'.event.key \in {"mousedown"} \cup SliderKeys )
    => ( slider'.reports = <<>> /\ slider'.see = slider.see )

====
